---- MODULE Spec2Model ----
(***************************************************************************)
(* V-Pet: the pet simulation and care economy of the Dashboard component.  *)
(*                                                                         *)
(* The model follows the committed React state of one Dashboard: every     *)
(* handler (a click, a timer callback, a mount) is one atomic action that  *)
(* reads the state of the last render and writes the next one, effects     *)
(* triggered by the change included.                                       *)
(*                                                                         *)
(* Numbers.  Stats are JavaScript doubles in the source.  Here a stat is   *)
(* an integer number of 1/Scale percent, and every quotient truncates.     *)
(* Wall-clock time `now` is in milliseconds since midnight of day 0.       *)
(*                                                                         *)
(* Time.  Timers are punctual: Advance moves `now` to the earliest pending *)
(* due time, and a callback runs when its due time has come.  Callbacks    *)
(* due at the same instant run in any order.  The user clicks between      *)
(* callbacks, at the instants the model visits.  A session ends at its     *)
(* `deadline`.                                                             *)
(*                                                                         *)
(* Specifications.  Spec: short sessions with every button, at midday and  *)
(* across the sleep boundaries.  CareSpec: hour-long sessions of play, toy *)
(* purchase, grooming and reset.  ClockSpec: idle sessions across the turn *)
(* of every hour, with one close-and-reopen of the page.  LoadSpec: mounts *)
(* on each kind of stored data.  HistorySpec: one page left open for more  *)
(* than 500 decay ticks.  LateSpec: sessions of walks and play in which a  *)
(* sub-event timeout may run late.  NightSpec: idle sessions across the    *)
(* turn of every hour on tired, starved and well-kept pets.  ReopenSpec:   *)
(* a page closed and opened again at once, any number of times.            *)
(* ReportSpec: getOverallScore, getGrade, getImprovements and the range    *)
(* filters applied to drawn inputs.  DaySpec: the day and sleep predicates *)
(* at every minute of the day.                                             *)
(*                                                                         *)
(* Left out: toasts, the tutorial, the idle flavour events, the list of    *)
(* initial purchases, the feed/water/bath/groom countdown texts, the       *)
(* report's feedback texts, and the pet selection that follows a reset.    *)
(***************************************************************************)
EXTENDS Integers, Sequences, FiniteSets, TLC

(* ----------------------------- bounds --------------------------------- *)
\* fixed-point resolution: stat units per percent
Scale == 10000
\* seconds of open-page time simulated in a session at midday
ShortSessionSec == 10
\* seconds of open-page time simulated in a session across a sleep boundary
LongSessionSec == 91
\* accepted actions per session
MaxStarts == 2
\* sub-event timers one click schedules
MaxSubEvents == 1
\* seconds the discarded Dashboard's timers are watched after a reset
ResetTailSec == 3
\* seconds of open-page time simulated in a session of play and care: the hour
\* a broken toy's check waits, after a play
CareSessionSec == 3610
\* seconds of open-page time simulated in a session across the turn of an hour
ClockSessionSec == 61
\* minutes the page stays closed before it is opened again: short, long
ShortGapMin == 10
LongGapMin == 60
\* seconds a pet is watched while its page is closed and opened again
ReopenSessionSec == 95
\* seconds of a session in which timeouts may run late
LateSessionSec == 61
\* seconds a page is left open and alone: more than 500 decay ticks
HistorySessionSec == 15100
\* how often a report finds one kind of care in the event log, at most
MaxCount == 1
\* how many events and how many snapshots a filtered report is drawn with, at most
MaxEntries == 2

(* ------------------------ program constants --------------------------- *)
CountdownPeriod == 1000
DecayPeriod == 30000
SleepCheckPeriod == 60000
RefreshPeriod == 30000
MaxEvents == 20
MaxHistory == 500
FreeFeeds == 120
RestockCost == 25
RestockExtra == 60
ToyCost == 15
ToyDuration == 5 * 60
ToyBreakDelay == 60 * 60 * 1000
ToyPenalty == 30
ToyHappiness == 20
MsPerHour == 60 * 60 * 1000
MsPerMinute == 60 * 1000
MsPerDay == 24 * MsPerHour

Min(a, b) == IF a < b THEN a ELSE b
Max(a, b) == IF a > b THEN a ELSE b

PetTypes == {"dog", "cat", "parrot", "rabbit"}
StatNames == {"hunger", "happiness", "hygiene", "energy", "thirst"}
Kinds == {"feed", "water", "exercise", "play", "buyToy", "bath", "vetVisit", "grooming"}
\* the name typed in the pet selection, and another one
PetName == "Rex"
OtherName == "Tom"
NoAction == "null"
\* localStorage.getItem returns null
NoData == [absent |-> TRUE]
\* no report function has been given inputs
NoReport == [step |-> "none"]

(* ------------------------- petConfigs --------------------------------- *)
\* decayRates are kept times 100 (6.75 -> 675); statChanges in percent.
petConfigs(type) ==
  CASE type \notin {"cat", "parrot", "rabbit"} ->
    [ decayRates |-> [hunger |-> 675, happiness |-> 4500, hygiene |-> 12000,
                      energy |-> 1000, thirst |-> 350],
      sleepHours |-> [start |-> 22, end |-> 6],
      initialStats |-> [hunger |-> 80, happiness |-> 80, hygiene |-> 90,
                        energy |-> 80, thirst |-> 80],
      actions |-> [
        feed |-> [cost |-> 0, duration |-> 5,
                  statChanges |-> [hunger |-> 90, happiness |-> 5, energy |-> 12],
                  triggerThreshold |-> 35],
        water |-> [cost |-> 0, duration |-> 5,
                   statChanges |-> [thirst |-> 80, happiness |-> 3],
                   triggerThreshold |-> 70],
        exercise |-> [cost |-> 0, duration |-> 5,
                      statChanges |-> [energy |-> -20, happiness |-> 15, hygiene |-> -7,
                                       thirst |-> -35, hunger |-> -8],
                      minEnergy |-> 20, cooldownHours |-> 12],
        play |-> [cost |-> 0, duration |-> 5,
                  statChanges |-> [happiness |-> 15, energy |-> -20, hygiene |-> -3,
                                   thirst |-> -30, hunger |-> -6],
                  requiresToy |-> TRUE, minEnergy |-> 20],
        bath |-> [cost |-> 2, duration |-> 35 * 60,
                  statChanges |-> [hygiene |-> 100, happiness |-> -5],
                  triggerThreshold |-> 35, cooldownDays |-> 14],
        grooming |-> [cost |-> 10, duration |-> 30 * 60,
                      statChanges |-> [hygiene |-> 15, happiness |-> -3],
                      triggerThreshold |-> 35, cooldownDays |-> 30],
        vetVisit |-> [cost |-> 100, duration |-> 45 * 60,
                      statChanges |-> [hygiene |-> 30, happiness |-> 10, energy |-> 20]] ] ]
  [] type = "cat" ->
    [ decayRates |-> [hunger |-> 800, happiness |-> 5000, hygiene |-> 18000,
                      energy |-> 1200, thirst |-> 400],
      sleepHours |-> [start |-> 20, end |-> 6],
      initialStats |-> [hunger |-> 75, happiness |-> 75, hygiene |-> 95,
                        energy |-> 70, thirst |-> 75],
      actions |-> [
        feed |-> [cost |-> 2, duration |-> 5,
                  statChanges |-> [hunger |-> 85, happiness |-> 3, energy |-> 10],
                  triggerThreshold |-> 40],
        water |-> [cost |-> 0, duration |-> 5,
                   statChanges |-> [thirst |-> 75, happiness |-> 2],
                   triggerThreshold |-> 70],
        exercise |-> [cost |-> 0, duration |-> 5,
                      statChanges |-> [energy |-> -15, happiness |-> 20, hygiene |-> -2,
                                       thirst |-> -30, hunger |-> -7],
                      minEnergy |-> 15, cooldownHours |-> 8],
        play |-> [cost |-> 0, duration |-> 5,
                  statChanges |-> [happiness |-> 20, energy |-> -15, hygiene |-> -2,
                                   thirst |-> -25, hunger |-> -5],
                  requiresToy |-> TRUE, minEnergy |-> 15],
        bath |-> [cost |-> 3, duration |-> 40 * 60,
                  statChanges |-> [hygiene |-> 100, happiness |-> -10],
                  triggerThreshold |-> 30, cooldownDays |-> 21],
        grooming |-> [cost |-> 5, duration |-> 20 * 60,
                      statChanges |-> [hygiene |-> 20, happiness |-> 5],
                      triggerThreshold |-> 40, cooldownDays |-> 7],
        vetVisit |-> [cost |-> 120, duration |-> 45 * 60,
                      statChanges |-> [hygiene |-> 25, happiness |-> 5, energy |-> 15]] ] ]
  [] type = "parrot" ->
    [ decayRates |-> [hunger |-> 500, happiness |-> 3000, hygiene |-> 20000,
                      energy |-> 800, thirst |-> 300],
      sleepHours |-> [start |-> 20, end |-> 7],
      initialStats |-> [hunger |-> 70, happiness |-> 70, hygiene |-> 85,
                        energy |-> 75, thirst |-> 70],
      actions |-> [
        feed |-> [cost |-> 4, duration |-> 5,
                  statChanges |-> [hunger |-> 80, happiness |-> 8, energy |-> 15],
                  triggerThreshold |-> 30],
        water |-> [cost |-> 0, duration |-> 5,
                   statChanges |-> [thirst |-> 75, happiness |-> 2],
                   triggerThreshold |-> 65],
        exercise |-> [cost |-> 0, duration |-> 5,
                      statChanges |-> [energy |-> -25, happiness |-> 25, hygiene |-> -5,
                                       thirst |-> -40, hunger |-> -10],
                      minEnergy |-> 25, cooldownHours |-> 6],
        play |-> [cost |-> 0, duration |-> 5,
                  statChanges |-> [happiness |-> 25, energy |-> -20, hygiene |-> -3,
                                   thirst |-> -35, hunger |-> -8],
                  requiresToy |-> TRUE, minEnergy |-> 20],
        bath |-> [cost |-> 1, duration |-> 15 * 60,
                  statChanges |-> [hygiene |-> 100, happiness |-> 10],
                  triggerThreshold |-> 40, cooldownDays |-> 3],
        grooming |-> [cost |-> 15, duration |-> 25 * 60,
                      statChanges |-> [hygiene |-> 20, happiness |-> -5],
                      triggerThreshold |-> 40, cooldownDays |-> 60],
        vetVisit |-> [cost |-> 150, duration |-> 50 * 60,
                      statChanges |-> [hygiene |-> 35, happiness |-> 15, energy |-> 25]] ] ]
  [] type = "rabbit" ->
    [ decayRates |-> [hunger |-> 400, happiness |-> 4000, hygiene |-> 15000,
                      energy |-> 900, thirst |-> 350],
      sleepHours |-> [start |-> 22, end |-> 6],
      initialStats |-> [hunger |-> 85, happiness |-> 75, hygiene |-> 80,
                        energy |-> 70, thirst |-> 80],
      actions |-> [
        feed |-> [cost |-> 2, duration |-> 5,
                  statChanges |-> [hunger |-> 75, happiness |-> 5, energy |-> 8],
                  triggerThreshold |-> 50],
        water |-> [cost |-> 0, duration |-> 5,
                   statChanges |-> [thirst |-> 80, happiness |-> 2],
                   triggerThreshold |-> 70],
        exercise |-> [cost |-> 0, duration |-> 5,
                      statChanges |-> [energy |-> -18, happiness |-> 18, hygiene |-> -8,
                                       thirst |-> -32, hunger |-> -9],
                      minEnergy |-> 18, cooldownHours |-> 10],
        play |-> [cost |-> 0, duration |-> 5,
                  statChanges |-> [happiness |-> 18, energy |-> -18, hygiene |-> -4,
                                   thirst |-> -28, hunger |-> -7],
                  requiresToy |-> TRUE, minEnergy |-> 18],
        bath |-> [cost |-> 1, duration |-> 20 * 60,
                  statChanges |-> [hygiene |-> 90, happiness |-> -8],
                  triggerThreshold |-> 40, cooldownDays |-> 30],
        grooming |-> [cost |-> 8, duration |-> 25 * 60,
                      statChanges |-> [hygiene |-> 25, happiness |-> 3],
                      triggerThreshold |-> 40, cooldownDays |-> 14],
        vetVisit |-> [cost |-> 110, duration |-> 40 * 60,
                      statChanges |-> [hygiene |-> 30, happiness |-> 8, energy |-> 18]] ] ]

(* ----------------------- pure helpers --------------------------------- *)
\* a whole percentage in stat units
Pct(x) == x * Scale

Hour(t) == (t \div MsPerHour) % 24
MinuteOfDay(t) == (t \div MsPerMinute) % (24 * 60)

\* variant of shouldBeSleeping whose window includes the hour it ends at
shouldBeSleepingInclusive(type, t) ==
  LET start == petConfigs(type).sleepHours.start
      end == petConfigs(type).sleepHours.end
      currentHour == Hour(t)
  IN IF start > end
       THEN (currentHour >= start \/ currentHour <= end)
       ELSE (currentHour >= start /\ currentHour <= end)

\* checkSleepCycle's window predicate on the current hour
shouldBeSleeping(type, t) ==
  LET start == petConfigs(type).sleepHours.start
      end == petConfigs(type).sleepHours.end
      currentHour == Hour(t)
  IN IF start > end
       THEN (currentHour >= start \/ currentHour < end)
       ELSE (currentHour >= start /\ currentHour < end)

\* variant of isDaytime that counts the minute the sleep window starts at as day
isDaytimeInclusive(type, t) ==
  LET start == petConfigs(type).sleepHours.start
      end == petConfigs(type).sleepHours.end
      totalMinutesFromMidnight == MinuteOfDay(t)
      sleepStartMinutes == start * 60
      sleepEndMinutes == end * 60
  IN IF start > end
       THEN (totalMinutesFromMidnight <= sleepStartMinutes
             /\ totalMinutesFromMidnight >= sleepEndMinutes)
       ELSE (totalMinutesFromMidnight >= sleepEndMinutes
             /\ totalMinutesFromMidnight <= sleepStartMinutes)

\* the decay interval's own day predicate, on the minute of the day
isDaytime(type, t) ==
  LET start == petConfigs(type).sleepHours.start
      end == petConfigs(type).sleepHours.end
      totalMinutesFromMidnight == MinuteOfDay(t)
      sleepStartMinutes == start * 60
      sleepEndMinutes == end * 60
  IN IF start > end
       THEN (totalMinutesFromMidnight < sleepStartMinutes
             /\ totalMinutesFromMidnight >= sleepEndMinutes)
       ELSE (totalMinutesFromMidnight >= sleepEndMinutes
             /\ totalMinutesFromMidnight < sleepStartMinutes)

updateEmotion(stats, sleeping) ==
  IF sleeping THEN "sleeping"
  ELSE IF stats.happiness >= Pct(80) THEN "happy"
  ELSE IF stats.happiness >= Pct(50) THEN "okay"
  ELSE IF stats.happiness >= Pct(20) THEN "sad"
  ELSE "grumpy"

\* awake branch of the decay interval: the new stat vector
awakeDecay(type, stats, daytime, msSinceRest) ==
  LET decay == petConfigs(type).decayRates
      hungerMultiplier == IF stats.hunger < Pct(25) THEN 15 ELSE 10
      hygieneMultiplier == IF stats.hygiene < Pct(40) THEN 15 ELSE 10
      energyChange == IF daytime
                        THEN 0 - ((50 * Scale) \div decay.energy)
                        ELSE IF msSinceRest >= 20 * MsPerMinute THEN Pct(2)
                        ELSE Min(Pct(2), ((msSinceRest \div 1000) * Scale) \div 600)
  IN [ hunger |-> Max(0, stats.hunger - ((50 * Scale) \div decay.hunger)),
       happiness |-> Max(0, stats.happiness
                          - ((50 * Scale * hungerMultiplier * hygieneMultiplier)
                               \div (decay.happiness * 100))),
       hygiene |-> Max(0, stats.hygiene - ((25 * Scale) \div decay.hygiene)),
       energy |-> Min(Pct(100), Max(0, stats.energy + energyChange)),
       thirst |-> Max(0, stats.thirst - ((50 * Scale) \div decay.thirst)) ]

\* asleep branch of the decay interval: the new stat vector
asleepDecay(type, stats) ==
  LET start == petConfigs(type).sleepHours.start
      end == petConfigs(type).sleepHours.end
      sleepDuration == IF start > end THEN 24 - start + end ELSE end - start
      totalSleepMinutes == sleepDuration * 60
      decay == petConfigs(type).decayRates
      \* hungerDecayRate * 0.5
      hungerHalfRate == Max(0, stats.hunger - Pct(20)) \div (2 * totalSleepMinutes)
  IN [ hunger |-> Max(Pct(20), stats.hunger - hungerHalfRate),
       happiness |-> Max(0, stats.happiness - ((15 * Scale) \div decay.happiness)),
       hygiene |-> Max(0, stats.hygiene - ((125 * Scale) \div (decay.hygiene * 10))),
       energy |-> Min(Pct(100), stats.energy + ((8 * Scale) \div 10)),
       thirst |-> Max(Pct(15), stats.thirst
                        - ((stats.thirst - Pct(15)) \div (2 * totalSleepMinutes))) ]

\* rate * hours of calculateDecay for a rate per hour given times 10: whole hours
\* first, then the rest of the interval to the second
decayOver(decayRate10, elapsedMs) ==
  LET perHour == (decayRate10 * Scale) \div 10
  IN perHour * (elapsedMs \div MsPerHour)
       + ((perHour * ((elapsedMs % MsPerHour) \div 1000)) \div 3600)

\* variant of calculateDecay without the Math.max(0, ...)
calculateDecayUnclamped(stat, decayRate10, elapsedMs, t) ==
  LET currentHour == Hour(t)
      isNighttime == currentHour >= 22 \/ currentHour < 6
  IN IF isNighttime /\ (decayRate10 = 10 \/ decayRate10 = 5)
       THEN stat - (decayOver(decayRate10, elapsedMs) \div 5)
       ELSE stat - decayOver(decayRate10, elapsedMs)

\* calculateDecay of the load effect; decayRate is per hour, times 10
calculateDecay(stat, decayRate10, elapsedMs, t) ==
  LET currentHour == Hour(t)
      isNighttime == currentHour >= 22 \/ currentHour < 6
  IN IF isNighttime /\ (decayRate10 = 10 \/ decayRate10 = 5)
       THEN Max(0, stat - (decayOver(decayRate10, elapsedMs) \div 5))
       ELSE Max(0, stat - decayOver(decayRate10, elapsedMs))

\* the stat vector the load effect restores from a saved one
loadedStats(saved, elapsedMs, t) ==
  [ hunger |-> calculateDecay(saved.hunger, 10, elapsedMs, t),
    happiness |-> calculateDecay(saved.happiness, 5, elapsedMs, t),
    hygiene |-> calculateDecay(saved.hygiene, 3, elapsedMs, t),
    energy |-> calculateDecay(saved.energy, 4, elapsedMs, t),
    thirst |-> calculateDecay(IF saved.thirst = 0 THEN Pct(80) ELSE saved.thirst,
                              20, elapsedMs, t) ]

\* variant of addEvent that keeps every entry
addEventUnbounded(log, message, t) ==
  <<[message |-> message, timestamp |-> t]>> \o log

\* addEvent: newest first, at most 20 kept.  A message is <<text, action>>.
addEvent(log, message, t) ==
  SubSeq(<<[message |-> message, timestamp |-> t]>> \o log, 1, Min(Len(log) + 1, MaxEvents))

\* variant of walkCountdownText that takes cooldownHours for a number of minutes
walkCountdownTextMinutes(type, t, lastWalk) ==
  ~ ( (t - lastWalk) >= petConfigs(type).actions.exercise.cooldownHours * MsPerMinute
      \/ lastWalk = 0 )

\* updateCountdowns, exercise part: TRUE when walkCountdown is set to a text
walkCountdownText(type, t, lastWalk) ==
  ~ ( (t - lastWalk) >= petConfigs(type).actions.exercise.cooldownHours * MsPerHour
      \/ lastWalk = 0 )

(* ------------------- the action buttons' onClick ----------------------- *)
Abs(x) == IF x < 0 THEN 0 - x ELSE x

\* variant of feedCostOf that starts charging one feed late
feedCostOfLate(type, count) ==
  IF type = "dog" THEN (IF count > FreeFeeds THEN RestockCost ELSE 0)
  ELSE petConfigs(type).actions.feed.cost

\* Feed: dog is free until 120 feeds, then 25 and 60 more seconds
feedCostOf(type, count) ==
  IF type = "dog" THEN (IF count >= FreeFeeds THEN RestockCost ELSE 0)
  ELSE petConfigs(type).actions.feed.cost

feedDurationOf(type, count) ==
  IF type = "dog" /\ count >= FreeFeeds THEN 5 + RestockExtra
  ELSE petConfigs(type).actions.feed.duration

\* cost argument each onClick passes to handleAction
costOf(kind, type, count) ==
  CASE kind = "feed" -> feedCostOf(type, count)
    [] kind = "buyToy" -> ToyCost
    [] OTHER -> petConfigs(type).actions[kind].cost

\* duration argument each onClick passes to handleAction, in seconds
durationOf(kind, type, count) ==
  CASE kind = "feed" -> feedDurationOf(type, count)
    [] kind = "buyToy" -> ToyDuration
    [] OTHER -> petConfigs(type).actions[kind].duration

\* statChanges argument each onClick passes to handleAction: the absolute
\* values of the stats it names, computed from the stats at the click
statChangesOf(kind, type, stats) ==
  LET a == petConfigs(type).actions
      up(s, d) == Min(Pct(100), stats[s] + Pct(d))
      down(s, d) == Max(0, stats[s] - Pct(d))
      both(s, d) == Max(0, Min(Pct(100), stats[s] + Pct(d)))
  IN CASE kind = "feed" ->
          LET c == a.feed.statChanges
              keys == {"hunger"} \cup (IF c.happiness # 0 THEN {"happiness"} ELSE {})
                                 \cup (IF c.energy # 0 THEN {"energy"} ELSE {})
          IN [s \in keys |-> up(s, c[s])]
       [] kind = "water" ->
          LET c == a.water.statChanges
              keys == {"thirst"} \cup (IF c.happiness # 0 THEN {"happiness"} ELSE {})
          IN [s \in keys |-> up(s, c[s])]
       [] kind \in {"exercise", "play"} ->
          LET c == a[kind].statChanges
              keys == {"energy", "happiness"}
                        \cup {s \in {"hygiene", "thirst", "hunger"} : Abs(c[s]) > 0}
          IN [s \in keys |-> IF s = "happiness" THEN up(s, c[s]) ELSE down(s, Abs(c[s]))]
       [] kind = "buyToy" ->
          [s \in {"happiness"} |-> up(s, ToyHappiness)]
       [] kind \in {"bath", "grooming"} ->
          LET c == a[kind].statChanges
              keys == {"hygiene"} \cup (IF c.happiness # 0 THEN {"happiness"} ELSE {})
          IN [s \in keys |-> IF s = "hygiene" THEN up(s, c[s]) ELSE both(s, c[s])]
       [] kind = "vetVisit" ->
          LET c == a.vetVisit.statChanges
          IN [s \in {"hygiene", "happiness", "energy"} |-> up(s, c[s])]

\* { ...currentPet.stats, ...statChanges }
mergeStats(stats, changes) ==
  [s \in StatNames |-> IF s \in DOMAIN changes THEN changes[s] ELSE stats[s]]

(* ----------------------------- state ---------------------------------- *)
VARIABLES
  pet,                \* [type, name, stats, emotion]
  totalSpent,
  events,             \* newest first
  activeAction,       \* the running action, or NoAction
  actionTimer,        \* seconds left on the overlay
  isSleeping,
  lastRestTime,
  walkCountdown,      \* TRUE when the exercise countdown text is set (not null)
  hasToy,
  lastWalkTime, lastBathTime, lastTrimNailsTime,
  feedCount,
  now,                \* wall clock, ms
  intervals,          \* live countdown setIntervals of handleAction, with their closures
  eventTimers,        \* pending sub-event setTimeouts
  decayDue, sleepDue, refreshDue,   \* next firing of the three periodic intervals
  lastSaved,          \* lastSaved of the persisted record
  showInitialPurchase,\* the first-time purchase overlay is up
  deadline,           \* end of the simulated session
  starts,             \* accepted actions so far
  ticksDone,          \* countdown callbacks run since the last accepted action
  toyTimers,          \* pending one-hour setTimeouts of broken toys, with their closures
  stage,              \* Index's stage: "dashboard" while the Dashboard is mounted
  statHistory,        \* snapshots [t, stats] of the stat vector, oldest first
  stored,             \* localStorage "vpet_pet_data": the persisted record, or NoData
  report,             \* inputs and results of the report functions
  lastOp              \* the handler that ran last: [op, kind, ok]

vars == << pet, totalSpent, events, activeAction, actionTimer, isSleeping, lastRestTime,
           walkCountdown, hasToy, lastWalkTime, lastBathTime, lastTrimNailsTime, feedCount,
           now, intervals, eventTimers, decayDue, sleepDue, refreshDue, lastSaved,
           showInitialPurchase, deadline, starts, ticksDone, toyTimers, stage,
           statHistory, stored, report, lastOp >>

\* what the save effect writes besides statHistory and lastSaved
savedFields == << pet, totalSpent, events, hasToy, lastWalkTime, lastBathTime,
                  lastTrimNailsTime, feedCount >>

Op(op, kind, ok) == [op |-> op, kind |-> kind, ok |-> ok]

\* the kind-specific terms of each ActionButton's `disabled` expression, variant
\* in which a stat equal to the trigger threshold does not disable the button
gateOfInclusive(kind) ==
  LET a == petConfigs(pet.type).actions
  IN CASE kind = "feed" -> pet.stats.hunger > Pct(a.feed.triggerThreshold)
       [] kind = "water" -> pet.stats.thirst > Pct(a.water.triggerThreshold)
       [] kind = "exercise" ->
          pet.stats.energy < Pct(a.exercise.minEnergy) \/ (lastWalkTime > 0 /\ walkCountdown)
       [] kind = "play" ->
          pet.stats.energy < Pct(a.play.minEnergy) \/ (a.play.requiresToy /\ ~hasToy)
       [] kind = "buyToy" -> hasToy
       [] kind = "bath" -> pet.stats.hygiene > Pct(a.bath.triggerThreshold)
       [] kind = "vetVisit" -> FALSE
       [] kind = "grooming" -> pet.stats.hygiene > Pct(a.grooming.triggerThreshold)

\* variant of gateOf whose exercise button ignores the walk countdown
gateOfNoCooldown(kind) ==
  LET a == petConfigs(pet.type).actions
  IN CASE kind = "feed" -> pet.stats.hunger >= Pct(a.feed.triggerThreshold)
       [] kind = "water" -> pet.stats.thirst >= Pct(a.water.triggerThreshold)
       [] kind = "exercise" -> pet.stats.energy < Pct(a.exercise.minEnergy)
       [] kind = "play" ->
          pet.stats.energy < Pct(a.play.minEnergy) \/ (a.play.requiresToy /\ ~hasToy)
       [] kind = "buyToy" -> hasToy
       [] kind = "bath" -> pet.stats.hygiene >= Pct(a.bath.triggerThreshold)
       [] kind = "vetVisit" -> FALSE
       [] kind = "grooming" -> pet.stats.hygiene >= Pct(a.grooming.triggerThreshold)

\* variant of gateOf whose buy-toy button is enabled while a toy is owned
gateOfToyAlways(kind) ==
  LET a == petConfigs(pet.type).actions
  IN CASE kind = "feed" -> pet.stats.hunger >= Pct(a.feed.triggerThreshold)
       [] kind = "water" -> pet.stats.thirst >= Pct(a.water.triggerThreshold)
       [] kind = "exercise" ->
          pet.stats.energy < Pct(a.exercise.minEnergy) \/ (lastWalkTime > 0 /\ walkCountdown)
       [] kind = "play" ->
          pet.stats.energy < Pct(a.play.minEnergy) \/ (a.play.requiresToy /\ ~hasToy)
       [] kind = "buyToy" -> FALSE
       [] kind = "bath" -> pet.stats.hygiene >= Pct(a.bath.triggerThreshold)
       [] kind = "vetVisit" -> FALSE
       [] kind = "grooming" -> pet.stats.hygiene >= Pct(a.grooming.triggerThreshold)

\* the kind-specific terms of each ActionButton's `disabled` expression
gateOf(kind) ==
  LET a == petConfigs(pet.type).actions
  IN CASE kind = "feed" -> pet.stats.hunger >= Pct(a.feed.triggerThreshold)
       [] kind = "water" -> pet.stats.thirst >= Pct(a.water.triggerThreshold)
       [] kind = "exercise" ->
          pet.stats.energy < Pct(a.exercise.minEnergy) \/ (lastWalkTime > 0 /\ walkCountdown)
       [] kind = "play" ->
          pet.stats.energy < Pct(a.play.minEnergy) \/ (a.play.requiresToy /\ ~hasToy)
       [] kind = "buyToy" -> hasToy
       [] kind = "bath" -> pet.stats.hygiene >= Pct(a.bath.triggerThreshold)
       [] kind = "vetVisit" -> FALSE
       [] kind = "grooming" -> pet.stats.hygiene >= Pct(a.grooming.triggerThreshold)

\* variant of Disabled without the `!!activeAction` term
DisabledIgnoringRun(kind) == isSleeping \/ gateOf(kind)

\* variant of Disabled without the `isSleeping` term
DisabledIgnoringSleep(kind) == activeAction # NoAction \/ gateOf(kind)

\* the `disabled` expression of each ActionButton
Disabled(kind) == activeAction # NoAction \/ isSleeping \/ gateOf(kind)

\* variant of nextHistory that keeps the first 500 snapshots
nextHistoryKeepOldest(history, stats, t) ==
  IF history # <<>> /\ history[Len(history)].stats = stats
    THEN history
    ELSE LET appended == Append(history, [t |-> t, stats |-> stats])
         IN SubSeq(appended, 1, Min(Len(appended), MaxHistory))

\* save effect: the history it appends to when the stat vector is not the one
\* appended last (lastAppendedStatsRef holds the stats of the newest snapshot)
nextHistory(history, stats, t) ==
  IF history # <<>> /\ history[Len(history)].stats = stats
    THEN history
    ELSE LET appended == Append(history, [t |-> t, stats |-> stats])
         IN SubSeq(appended, Max(1, Len(appended) - MaxHistory + 1), Len(appended))

\* variant of dataToSave from before the stat history was stored
dataToSaveNoHistory(p, spent, log, toy, walk, bath, trim, feeds, history, t) ==
  [ pet |-> p, totalSpent |-> spent, events |-> log, hasToy |-> toy,
    lastWalkTime |-> walk, lastBathTime |-> bath, lastTrimNailsTime |-> trim,
    feedCount |-> feeds, statHistory |-> <<>>, lastSaved |-> t ]

\* save effect: the record it writes
dataToSave(p, spent, log, toy, walk, bath, trim, feeds, history, t) ==
  [ pet |-> p, totalSpent |-> spent, events |-> log, hasToy |-> toy,
    lastWalkTime |-> walk, lastBathTime |-> bath, lastTrimNailsTime |-> trim,
    feedCount |-> feeds, statHistory |-> history, lastSaved |-> t ]

\* The effects React re-runs after a render in which their dependencies changed:
\* the decay, sleep-check and countdown-refresh intervals are re-created (the
\* refresh one recomputes at once) and the save effect writes the record.
\* The *Base arguments are the values when the dependencies did not change.
AfterRender(decayBase, sleepBase, refreshBase, walkBase, petSet) ==
  /\ decayDue' = IF <<activeAction', isSleeping', lastRestTime'>>
                      # <<activeAction, isSleeping, lastRestTime>>
                   THEN now' + DecayPeriod ELSE decayBase
  /\ sleepDue' = IF isSleeping' # isSleeping THEN now' + SleepCheckPeriod ELSE sleepBase
  /\ LET changed == <<pet'.stats.hunger, pet'.stats.thirst, lastWalkTime',
                      lastBathTime', lastTrimNailsTime'>>
                    # <<pet.stats.hunger, pet.stats.thirst, lastWalkTime,
                        lastBathTime, lastTrimNailsTime>>
     IN /\ refreshDue' = IF changed THEN now' + RefreshPeriod ELSE refreshBase
        /\ walkCountdown' = IF changed
                              THEN walkCountdownText(pet.type, now', lastWalkTime')
                              ELSE walkBase
  /\ lastSaved' = IF petSet \/ savedFields' # savedFields THEN now' ELSE lastSaved
  /\ statHistory' = IF petSet \/ savedFields' # savedFields
                      THEN nextHistory(statHistory, pet'.stats, now')
                      ELSE statHistory
  /\ stored' = IF petSet \/ savedFields' # savedFields
                 THEN dataToSave(pet', totalSpent', events', hasToy', lastWalkTime',
                                 lastBathTime', lastTrimNailsTime', feedCount',
                                 nextHistory(statHistory, pet'.stats, now'), now')
                 ELSE stored

\* the due times of every pending timer; the cleanups of the three effects
\* clear their intervals when the Dashboard unmounts, nothing clears the others
Dues ==
  (IF stage = "dashboard" THEN {decayDue, sleepDue, refreshDue} ELSE {})
    \cup {intervals[i].due : i \in DOMAIN intervals}
    \cup {t.due : t \in eventTimers}
    \cup {t.due : t \in toyTimers}

SetMin(S) == CHOOSE x \in S : \A y \in S : x <= y

\* every callback that is due has run: the page is waiting for a timer or a click
Settled == \A d \in Dues : d > now

(* --------------------------- handlers --------------------------------- *)
\* the event an onClick appends before it calls handleAction (none for feed, water)
clickEvents(kind, log, t) ==
  CASE kind = "exercise" -> addEvent(log, <<"is going on a", kind>>, t)
    [] kind = "play" -> addEvent(log, <<"is playing!", kind>>, t)
    [] kind = "buyToy" -> addEvent(log, <<"Buying a new toy", kind>>, t)
    [] kind = "bath" -> addEvent(log, <<"is getting a", kind>>, t)
    [] kind = "vetVisit" -> addEvent(log, <<"Taking to the vet", kind>>, t)
    [] kind = "grooming" -> addEvent(log, <<"Trimming/Brushing", kind>>, t)
    [] OTHER -> log

\* the sub-event setTimeouts an exercise or play onClick may schedule; each is
\* sampled on its own, so any subset of them can be pending
subEventsOf(kind, type, t, owner) ==
  LET a == petConfigs(type).actions
      d == IF kind \in {"exercise", "play"} THEN a[kind].duration ELSE 0
      hygieneLoss == IF kind \in {"exercise", "play"}
                       THEN Abs(a[kind].statChanges.hygiene) ELSE 0
      timer(frac10, stat, delta, text) ==
        [ owner |-> owner, due |-> t + ((d * frac10) \div 10),
          stat |-> stat, delta |-> delta, message |-> <<text, kind>> ]
  IN CASE kind = "exercise" ->
          { timer(4, "happiness", 10, "+10 Happiness"),
            timer(6, "happiness", 15, "+15 Happiness"),
            timer(5, "hygiene", 0 - (IF hygieneLoss # 0 THEN hygieneLoss ELSE 5),
                  "-Hygiene") }
       [] kind = "play" ->
          { timer(4, "happiness", 10, "+10 Happiness") }
            \cup (IF hygieneLoss > 0
                    THEN { timer(6, "hygiene", 0 - hygieneLoss, "-Hygiene") } ELSE {})
       [] OTHER -> {}

\* variant of handleAction that adds the cost twice
handleActionChargedTwice(kind, cost, duration, statChanges, toyBreaks, log) ==
  /\ activeAction' = kind
  /\ actionTimer' = duration
  /\ totalSpent' = totalSpent + cost + cost
  /\ events' = IF cost > 0 THEN addEvent(log, <<"Spent on", kind>>, now) ELSE log
  /\ intervals' = Append(intervals,
                         [ due |-> now + CountdownPeriod, kind |-> kind, id |-> starts + 1,
                           statChanges |-> statChanges, toyBreaks |-> toyBreaks,
                           hasToy |-> hasToy, duration |-> duration, cost |-> cost ])

\* variant of handleAction whose countdown starts one second too high
handleActionLongCountdown(kind, cost, duration, statChanges, toyBreaks, log) ==
  /\ activeAction' = kind
  /\ actionTimer' = duration + 1
  /\ totalSpent' = totalSpent + cost
  /\ events' = IF cost > 0 THEN addEvent(log, <<"Spent on", kind>>, now) ELSE log
  /\ intervals' = Append(intervals,
                         [ due |-> now + CountdownPeriod, kind |-> kind, id |-> starts + 1,
                           statChanges |-> statChanges, toyBreaks |-> toyBreaks,
                           hasToy |-> hasToy, duration |-> duration, cost |-> cost ])

\* handleAction(action, cost, duration, statChanges, extraEffects), started from
\* the event log `log` the onClick left; the closure of the countdown interval
\* keeps statChanges and what extraEffects needs
handleAction(kind, cost, duration, statChanges, toyBreaks, log) ==
  /\ activeAction' = kind
  /\ actionTimer' = duration
  /\ totalSpent' = totalSpent + cost
  /\ events' = IF cost > 0 THEN addEvent(log, <<"Spent on", kind>>, now) ELSE log
  /\ intervals' = Append(intervals,
                         [ due |-> now + CountdownPeriod, kind |-> kind, id |-> starts + 1,
                           statChanges |-> statChanges, toyBreaks |-> toyBreaks,
                           hasToy |-> hasToy, duration |-> duration, cost |-> cost ])

\* A click on the button of `kind`, between two timer callbacks; the buttons
\* cannot be reached while the purchase overlay covers the page.  Nothing runs
\* when the button is disabled.
Attempt(kind) ==
  /\ Settled
  /\ stage = "dashboard"
  /\ ~showInitialPurchase
  /\ IF Disabled(kind)
    THEN /\ lastOp' = Op("attempt", kind, FALSE)
         /\ UNCHANGED << pet, totalSpent, events, activeAction, actionTimer, isSleeping,
                         lastRestTime, walkCountdown, hasToy, lastWalkTime, lastBathTime,
                         lastTrimNailsTime, feedCount, now, intervals, eventTimers,
                         decayDue, sleepDue, refreshDue, lastSaved, showInitialPurchase, deadline, starts, ticksDone, toyTimers, stage, statHistory, stored, report >>
    ELSE /\ starts < MaxStarts
         /\ \E toyBreaks \in (IF kind = "play" /\ petConfigs(pet.type).actions.play.requiresToy
                                THEN BOOLEAN ELSE {FALSE}) :
            \E timers \in SUBSET subEventsOf(kind, pet.type, now, starts + 1) :
              /\ Cardinality(timers) <= MaxSubEvents
              /\ handleAction(kind, costOf(kind, pet.type, feedCount),
                              durationOf(kind, pet.type, feedCount),
                              statChangesOf(kind, pet.type, pet.stats), toyBreaks,
                              clickEvents(kind, events, now))
              /\ eventTimers' = eventTimers \cup timers
         /\ starts' = starts + 1
         /\ ticksDone' = 0
         /\ lastOp' = Op("attempt", kind, TRUE)
         /\ UNCHANGED << pet, isSleeping, lastRestTime, hasToy, lastWalkTime, lastBathTime,
                         lastTrimNailsTime, feedCount, now, showInitialPurchase, deadline, toyTimers, stage, report >>
         /\ AfterRender(decayDue, sleepDue, refreshDue, walkCountdown, FALSE)

\* extraEffects of each action, run at completion, on the event log
extraEvents(c, log, t) ==
  CASE c.kind = "exercise" -> addEvent(log, <<"is back from", c.kind>>, t)
    [] c.kind = "play" /\ c.toyBreaks -> addEvent(log, <<"The toy broke!", c.kind>>, t)
    [] c.kind = "buyToy" -> addEvent(log, <<"Got a new toy!", c.kind>>, t)
    [] c.kind = "vetVisit" -> addEvent(log, <<"got a checkup!", c.kind>>, t)
    [] c.kind = "grooming" -> addEvent(log, <<"is trimmed/brushed!", c.kind>>, t)
    [] OTHER -> log

\* variant of clearEventTimers that cancels nothing
clearEventTimersNone(timers, c) == timers

\* extraEffects of exercise and play: eventTimers.forEach(t => clearTimeout(t))
\* on the timers its own click scheduled
clearEventTimers(timers, c) == { t \in timers : t.owner # c.id }

\* one callback of the countdown interval i of handleAction
CountdownTick(i) ==
  LET c == intervals[i]
      rest == SubSeq(intervals, 1, i - 1) \o SubSeq(intervals, i + 1, Len(intervals))
  IN /\ c.due <= now
     /\ ticksDone' = ticksDone + 1
     /\ IF stage # "dashboard"
          THEN \* the updater runs, its state updates are dropped with the component
               /\ intervals' = IF actionTimer <= 1 THEN rest
                                ELSE [intervals EXCEPT ![i].due = c.due + CountdownPeriod]
               /\ lastOp' = Op("orphan", "countdown", TRUE)
               /\ UNCHANGED << pet, totalSpent, events, activeAction, actionTimer, isSleeping,
                               lastRestTime, walkCountdown, hasToy, lastWalkTime,
                               lastBathTime, lastTrimNailsTime, feedCount, now,
                               eventTimers, decayDue, sleepDue, refreshDue, lastSaved,
                               showInitialPurchase, deadline, starts, toyTimers, stage, statHistory, stored, report >>
          ELSE IF actionTimer <= 1
          THEN \* clearInterval; setActiveAction(null); setPet; extraEffects; addEvent
               LET newStats == mergeStats(pet.stats, c.statChanges)
               IN /\ intervals' = rest
                  /\ activeAction' = NoAction
                  /\ actionTimer' = 0
                  /\ pet' = [pet EXCEPT !.stats = newStats,
                                        !.emotion = updateEmotion(newStats, FALSE)]
                  /\ feedCount' = IF c.kind = "feed" /\ pet.type = "dog"
                                    THEN feedCount + 1 ELSE feedCount
                  /\ eventTimers' = IF c.kind \in {"exercise", "play"}
                                      THEN clearEventTimers(eventTimers, c)
                                      ELSE eventTimers
                  /\ lastWalkTime' = IF c.kind = "exercise" THEN now ELSE lastWalkTime
                  /\ lastBathTime' = IF c.kind = "bath" THEN now ELSE lastBathTime
                  /\ lastTrimNailsTime' = IF c.kind = "grooming" THEN now
                                          ELSE lastTrimNailsTime
                  /\ hasToy' = CASE c.kind = "play" /\ c.toyBreaks -> FALSE
                                 [] c.kind = "buyToy" -> TRUE
                                 [] OTHER -> hasToy
                  /\ toyTimers' = IF c.kind = "play" /\ c.toyBreaks
                                     THEN toyTimers \cup
                                            {[ id |-> c.id, due |-> now + ToyBreakDelay,
                                               hasToy |-> c.hasToy ]}
                                     ELSE toyTimers
                  /\ events' = addEvent(extraEvents(c, events, now),
                                        <<"Finished", c.kind>>, now)
                  /\ lastOp' = Op("countdown", c.kind, TRUE)
                  /\ UNCHANGED << totalSpent, isSleeping, lastRestTime, now, showInitialPurchase, deadline,
                                  starts, stage, report >>
                  /\ AfterRender(decayDue, sleepDue, refreshDue, walkCountdown, TRUE)
          ELSE /\ actionTimer' = actionTimer - 1
               /\ intervals' = [intervals EXCEPT ![i].due = c.due + CountdownPeriod]
               /\ lastOp' = Op("countdown", c.kind, FALSE)
               /\ UNCHANGED << pet, totalSpent, events, activeAction, isSleeping,
                               lastRestTime, walkCountdown, hasToy, lastWalkTime,
                               lastBathTime, lastTrimNailsTime, feedCount, now,
                               eventTimers, decayDue, sleepDue, refreshDue, lastSaved,
                               showInitialPurchase, deadline, starts, toyTimers, stage, statHistory, stored, report >>

\* a sub-event setTimeout fires: addEvent and setPet on the current stats
SubEventFire(t) ==
  /\ t \in eventTimers
  /\ t.due <= now
  /\ stage = "dashboard"
  /\ eventTimers' = eventTimers \ {t}
  /\ events' = addEvent(events, t.message, now)
  /\ pet' = [pet EXCEPT !.stats[t.stat] =
                          IF t.delta > 0
                            THEN Min(Pct(100), pet.stats[t.stat] + Pct(t.delta))
                            ELSE Max(0, pet.stats[t.stat] - Pct(Abs(t.delta)))]
  /\ lastOp' = Op("subEvent", t.stat, TRUE)
  /\ UNCHANGED << totalSpent, activeAction, actionTimer, isSleeping, lastRestTime, hasToy,
                  lastWalkTime, lastBathTime, lastTrimNailsTime, feedCount, now, intervals,
                  showInitialPurchase, deadline, starts, ticksDone, toyTimers, stage, report >>
  /\ AfterRender(decayDue, sleepDue, refreshDue, walkCountdown, TRUE)

\* one callback of the 30-second decay interval
DecayTick ==
  /\ decayDue <= now
  /\ stage = "dashboard"
  /\ IF activeAction = NoAction /\ ~isSleeping
       THEN LET newStats == awakeDecay(pet.type, pet.stats, isDaytime(pet.type, now),
                                       now - lastRestTime)
            IN /\ pet' = [pet EXCEPT !.stats = newStats,
                                     !.emotion = updateEmotion(newStats, isSleeping)]
               /\ lastRestTime' = now
               /\ lastOp' = Op("decay", "awake", TRUE)
               /\ UNCHANGED << totalSpent, events, activeAction, actionTimer, isSleeping,
                               hasToy, lastWalkTime, lastBathTime, lastTrimNailsTime,
                               feedCount, now, intervals, eventTimers, showInitialPurchase, deadline, starts, ticksDone, toyTimers, stage, report >>
               /\ AfterRender(decayDue + DecayPeriod, sleepDue, refreshDue,
                              walkCountdown, TRUE)
       ELSE IF isSleeping
       THEN LET newStats == asleepDecay(pet.type, pet.stats)
            IN /\ pet' = [pet EXCEPT !.stats = newStats,
                                     !.emotion = updateEmotion(newStats, TRUE)]
               /\ lastOp' = Op("decay", "asleep", TRUE)
               /\ UNCHANGED << totalSpent, events, activeAction, actionTimer, isSleeping,
                               lastRestTime, hasToy, lastWalkTime, lastBathTime,
                               lastTrimNailsTime, feedCount, now, intervals, eventTimers,
                               showInitialPurchase, deadline, starts, ticksDone, toyTimers, stage, report >>
               /\ AfterRender(decayDue + DecayPeriod, sleepDue, refreshDue,
                              walkCountdown, TRUE)
       ELSE /\ decayDue' = decayDue + DecayPeriod
            /\ lastOp' = Op("decay", "none", FALSE)
            /\ UNCHANGED << pet, totalSpent, events, activeAction, actionTimer, isSleeping,
                            lastRestTime, walkCountdown, hasToy, lastWalkTime,
                            lastBathTime, lastTrimNailsTime, feedCount, now, intervals,
                            eventTimers, sleepDue, refreshDue, lastSaved, showInitialPurchase, deadline,
                            starts, ticksDone, toyTimers, stage, statHistory, stored, report >>

\* variant of checkSleepCycle that logs on every check inside the window
checkSleepCycleLevel ==
  /\ sleepDue <= now
  /\ stage = "dashboard"
  /\ LET should == shouldBeSleeping(pet.type, now)
     IN IF should
          THEN /\ isSleeping' = TRUE
               /\ events' = addEvent(events, <<"fell asleep", "">>, now)
               /\ lastOp' = Op("sleepCheck", "asleep", TRUE)
          ELSE IF isSleeping
          THEN /\ isSleeping' = FALSE
               /\ events' = addEvent(events, <<"woke up!", "">>, now)
               /\ lastOp' = Op("sleepCheck", "awake", TRUE)
          ELSE /\ UNCHANGED << isSleeping, events >>
               /\ lastOp' = Op("sleepCheck", "none", FALSE)
  /\ UNCHANGED << pet, totalSpent, activeAction, actionTimer, lastRestTime, hasToy,
                  lastWalkTime, lastBathTime, lastTrimNailsTime, feedCount, now, intervals,
                  eventTimers, showInitialPurchase, deadline, starts, ticksDone, toyTimers, stage, report >>
  /\ AfterRender(decayDue, sleepDue + SleepCheckPeriod, refreshDue, walkCountdown, FALSE)

\* one callback of the 60-second sleep check
checkSleepCycle ==
  /\ sleepDue <= now
  /\ stage = "dashboard"
  /\ LET should == shouldBeSleeping(pet.type, now)
     IN IF should /\ ~isSleeping
          THEN /\ isSleeping' = TRUE
               /\ events' = addEvent(events, <<"fell asleep", "">>, now)
               /\ lastOp' = Op("sleepCheck", "asleep", TRUE)
          ELSE IF ~should /\ isSleeping
          THEN /\ isSleeping' = FALSE
               /\ events' = addEvent(events, <<"woke up!", "">>, now)
               /\ lastOp' = Op("sleepCheck", "awake", TRUE)
          ELSE /\ UNCHANGED << isSleeping, events >>
               /\ lastOp' = Op("sleepCheck", "none", FALSE)
  /\ UNCHANGED << pet, totalSpent, activeAction, actionTimer, lastRestTime, hasToy,
                  lastWalkTime, lastBathTime, lastTrimNailsTime, feedCount, now, intervals,
                  eventTimers, showInitialPurchase, deadline, starts, ticksDone, toyTimers, stage, report >>
  /\ AfterRender(decayDue, sleepDue + SleepCheckPeriod, refreshDue, walkCountdown, FALSE)

\* one callback of the 30-second countdown refresh
updateCountdowns ==
  /\ refreshDue <= now
  /\ stage = "dashboard"
  /\ walkCountdown' = walkCountdownText(pet.type, now, lastWalkTime)
  /\ refreshDue' = refreshDue + RefreshPeriod
  /\ lastOp' = Op("refresh", "", TRUE)
  /\ UNCHANGED << pet, totalSpent, events, activeAction, actionTimer, isSleeping,
                  lastRestTime, hasToy, lastWalkTime, lastBathTime, lastTrimNailsTime,
                  feedCount, now, intervals, eventTimers, decayDue, sleepDue, lastSaved,
                  showInitialPurchase, deadline, starts, ticksDone, toyTimers, stage, statHistory, stored, report >>

\* variant of toyPenaltyApplies that ignores the closure
toyPenaltyAlways(captured) == TRUE

\* `if (!hasToy)` in the one-hour setTimeout of a broken toy: hasToy is the
\* constant the play onClick closed over, not the state at the time of the check
toyPenaltyApplies(captured) == ~captured

\* the one-hour setTimeout scheduled when a toy broke fires
ToyBreakFire(t) ==
  /\ t \in toyTimers
  /\ t.due <= now
  /\ stage = "dashboard"
  /\ toyTimers' = toyTimers \ {t}
  /\ UNCHANGED << totalSpent, activeAction, actionTimer, isSleeping, lastRestTime, hasToy,
                  lastWalkTime, lastBathTime, lastTrimNailsTime, feedCount, now, intervals,
                  eventTimers, showInitialPurchase, deadline, starts, ticksDone, stage, report >>
  /\ IF toyPenaltyApplies(t.hasToy)
       THEN /\ pet' = [pet EXCEPT !.stats.happiness =
                                    Max(0, pet.stats.happiness - Pct(ToyPenalty))]
            /\ events' = addEvent(events, <<"is sad without a toy", "play">>, now)
            /\ lastOp' = Op("toyBreak", "penalty", TRUE)
            /\ AfterRender(decayDue, sleepDue, refreshDue, walkCountdown, TRUE)
       ELSE /\ lastOp' = Op("toyBreak", "none", FALSE)
            /\ UNCHANGED << pet, events, decayDue, sleepDue, refreshDue, walkCountdown,
                            lastSaved, statHistory, stored >>

\* a setTimeout of the discarded Dashboard fires after the reset: its state
\* updates are dropped with the component
OrphanTimeout ==
  /\ stage # "dashboard"
  /\ \/ \E t \in eventTimers : t.due <= now /\ eventTimers' = eventTimers \ {t}
                                /\ UNCHANGED toyTimers
     \/ \E t \in toyTimers : t.due <= now /\ toyTimers' = toyTimers \ {t}
                              /\ UNCHANGED eventTimers
  /\ lastOp' = Op("orphan", "timeout", TRUE)
  /\ UNCHANGED << pet, totalSpent, events, activeAction, actionTimer, isSleeping,
                  lastRestTime, walkCountdown, hasToy, lastWalkTime, lastBathTime,
                  lastTrimNailsTime, feedCount, now, intervals, decayDue, sleepDue,
                  refreshDue, lastSaved, showInitialPurchase, deadline, starts,
                  ticksDone, stage, statHistory, stored, report >>

\* Index.handleReset, from the Reset button: the Dashboard is replaced by the pet
\* selection, so the cleanups of its effects run; the variables keep the last
\* state of the discarded Dashboard, which is watched for ResetTailSec more
handleReset ==
  /\ Settled
  /\ stage = "dashboard"
  /\ ~showInitialPurchase
  /\ stage' = "selection"
  /\ stored' = NoData
  /\ deadline' = Min(deadline, now + ResetTailSec * 1000)
  /\ lastOp' = Op("reset", "", TRUE)
  /\ UNCHANGED << pet, totalSpent, events, activeAction, actionTimer, isSleeping,
                  lastRestTime, walkCountdown, hasToy, lastWalkTime, lastBathTime,
                  lastTrimNailsTime, feedCount, now, intervals, eventTimers, decayDue,
                  sleepDue, refreshDue, lastSaved, showInitialPurchase, starts,
                  ticksDone, toyTimers, statHistory, report >>

\* time passes until the next timer is due
Advance ==
  /\ Settled
  /\ Dues # {}
  /\ SetMin(Dues) <= deadline
  /\ now' = SetMin(Dues)
  /\ lastOp' = Op("advance", "", TRUE)
  /\ UNCHANGED << pet, totalSpent, events, activeAction, actionTimer, isSleeping,
                  lastRestTime, walkCountdown, hasToy, lastWalkTime, lastBathTime,
                  lastTrimNailsTime, feedCount, intervals, eventTimers, decayDue,
                  sleepDue, refreshDue, lastSaved, showInitialPurchase, deadline, starts, ticksDone, toyTimers, stage, statHistory, stored, report >>

(* ------------------------ mount and load ------------------------------ *)
\* calculateInitialStats for a dog, from the minute of the day; in 1/1000 percent
dogInitialHunger(m) ==
  LET hungerAtTenPM == 90000 - ((180 * 100000) \div 675)
  IN IF m < 360 THEN 25000
     ELSE IF m < 480 THEN Max(20000, 25000 - (((m - 360) * 5000) \div 120))
     ELSE IF m < 1140 THEN Max(0, 90000 - (((m - 420) * 100000) \div 675))
     ELSE IF m < 1320 THEN Max(0, 90000 - (((m - 1140) * 100000) \div 675))
     ELSE Max(20000, hungerAtTenPM - (((m - 1320) * (hungerAtTenPM - 20000)) \div 480))

dogInitialEnergy(m) ==
  IF m >= 1320 \/ m < 360
    THEN LET minutesIntoSleep == IF m >= 1320 THEN m - 1320 ELSE m + (1440 - 1320)
         IN Min(85000, 25000 + ((minutesIntoSleep * 60000) \div 480))
    ELSE Max(25000, 85000 - (((m - 360) * 60000) \div 960))

\* Math.round of a value in 1/1000
Round1000(x) == (x + 500) \div 1000

\* calculateInitialStats, in whole percent
calculateInitialStats(type, t) ==
  LET init == petConfigs(type).initialStats
  IN IF type = "dog"
       THEN [ hunger |-> Round1000(dogInitialHunger(MinuteOfDay(t))),
              happiness |-> init.happiness,
              hygiene |-> init.hygiene,
              energy |-> Round1000(dogInitialEnergy(MinuteOfDay(t))),
              thirst |-> init.thirst ]
       ELSE init

\* handlePetSelect: the pet handed to a new Dashboard
newPet(type, t) ==
  [ type |-> type, name |-> PetName,
    stats |-> [s \in StatNames |-> Pct(calculateInitialStats(type, t)[s])],
    emotion |-> "happy" ]

\* sum of getPurchaseItems(petType)
purchaseCost(type) ==
  CASE type = "cat" -> 12 + 40 + 18 + 12 + 30
    [] type = "parrot" -> 80 + 25 + 15 + 18 + 20
    [] type = "rabbit" -> 60 + 20 + 15 + 12 + 10
    [] OTHER -> 15 + 25 + 50 + 30 + 15

\* The Dashboard's state once its mount effects have run at time t: useState
\* defaults, the values the load effect restored (r), an immediate sleep check,
\* and the three intervals started.
\* The stat history after a mount.  The save effect of the first render runs
\* after the load effect: it appends the stats of the pet Index passed to an
\* empty history and its setStatHistory replaces the one the load effect set
\* from the record; the save effect of the next render appends the loaded stats
\* when they differ.
mountHistory(r, t) ==
  nextHistory(nextHistory(<<>>, r.initialPet.stats, t), r.pet.stats, t)

Mounted(r, t, fresh) ==
  LET sleeping == shouldBeSleeping(r.pet.type, t)
  IN [ pet |-> r.pet,
       totalSpent |-> r.totalSpent,
       events |-> IF sleeping THEN addEvent(r.events, <<"fell asleep", "">>, t)
                  ELSE r.events,
       isSleeping |-> sleeping,
       hasToy |-> r.hasToy,
       lastWalkTime |-> r.lastWalkTime,
       lastBathTime |-> r.lastBathTime,
       lastTrimNailsTime |-> r.lastTrimNailsTime,
       feedCount |-> r.feedCount,
       walkCountdown |-> walkCountdownText(r.pet.type, t, r.lastWalkTime),
       showInitialPurchase |-> fresh,
       statHistory |-> mountHistory(r, t),
       stored |-> dataToSave(r.pet, r.totalSpent,
                             IF sleeping THEN addEvent(r.events, <<"fell asleep", "">>, t)
                             ELSE r.events,
                             r.hasToy, r.lastWalkTime, r.lastBathTime,
                             r.lastTrimNailsTime, r.feedCount, mountHistory(r, t), t) ]

\* the values a Dashboard starts from when there is no record to restore
noRecord(p) ==
  [ pet |-> p, totalSpent |-> 0, events |-> <<>>, hasToy |-> FALSE, lastWalkTime |-> 0,
    lastBathTime |-> 0, lastTrimNailsTime |-> 0, feedCount |-> 0, initialPet |-> p ]

\* the load effect on a record of the same pet, saved at lastSavedAt, read at t
loadRecord(r, lastSavedAt, t) ==
  LET elapsed == t - lastSavedAt
      newStats == loadedStats(r.pet.stats, elapsed, t)
  IN [ pet |-> [ r.pet EXCEPT !.stats = newStats,
                              !.emotion = updateEmotion(newStats, FALSE) ],
       totalSpent |-> r.totalSpent,
       events |-> IF elapsed > 5 * MsPerMinute
                    THEN addEvent(r.events, <<"Welcome back!", "">>, t)
                    ELSE r.events,
       hasToy |-> r.hasToy, lastWalkTime |-> r.lastWalkTime,
       lastBathTime |-> r.lastBathTime, lastTrimNailsTime |-> r.lastTrimNailsTime,
       feedCount |-> r.feedCount,
       \* Index passes the record's pet to the Dashboard
       initialPet |-> r.pet ]

\* the first-time purchase overlay is confirmed
handleInitialPurchaseComplete ==
  /\ Settled
  /\ showInitialPurchase
  /\ showInitialPurchase' = FALSE
  /\ totalSpent' = totalSpent + purchaseCost(pet.type)
  /\ hasToy' = TRUE
  /\ events' = addEvent(events, <<"Purchased all essentials", "">>, now)
  /\ lastOp' = Op("purchase", "", TRUE)
  /\ UNCHANGED << pet, activeAction, actionTimer, isSleeping, lastRestTime, lastWalkTime,
                  lastBathTime, lastTrimNailsTime, feedCount, now, intervals, eventTimers,
                  deadline, starts, ticksDone, toyTimers, stage, report >>
  /\ AfterRender(decayDue, sleepDue, refreshDue, walkCountdown, FALSE)

(* ------------------------ initial states ------------------------------ *)
\* times at which a session opens, on day 2: at noon, two seconds before the
\* pet's sleep window opens, and two seconds before it closes
Noon == 2 * MsPerDay + 12 * MsPerHour
Dusk(type) == 2 * MsPerDay + petConfigs(type).sleepHours.start * MsPerHour - 2000
Dawn(type) == 2 * MsPerDay + petConfigs(type).sleepHours.end * MsPerHour - 2000

\* a pet that needs every kind of care
neededStats ==
  [ hunger |-> Pct(25), happiness |-> Pct(90), hygiene |-> Pct(25),
    energy |-> Pct(50), thirst |-> Pct(20) ]

\* a pet that is hungry and dirty, too tired to walk or play, and whose thirst
\* is at the dog's, cat's and rabbit's water threshold
tiredStats ==
  [ hunger |-> Pct(25), happiness |-> Pct(60), hygiene |-> Pct(25),
    energy |-> Pct(10), thirst |-> Pct(70) ]

\* records an earlier session of a pet in need can have left: with a toy and the
\* last walk exactly one cooldown ago, or without a toy and walked an hour ago
SavedRecords(type, t) ==
  { [ pet |-> [type |-> type, name |-> PetName, stats |-> neededStats, emotion |-> "happy"],
      totalSpent |-> purchaseCost(type), events |-> <<>>, hasToy |-> v.toy,
      lastWalkTime |-> v.lw, lastBathTime |-> 0, lastTrimNailsTime |-> 0,
      feedCount |-> fc ] :
      v \in { [toy |-> TRUE,
               lw |-> t - petConfigs(type).actions.exercise.cooldownHours * MsPerHour],
              [toy |-> FALSE, lw |-> t - MsPerHour] },
      fc \in (IF type = "dog" THEN {FreeFeeds - 1, FreeFeeds} ELSE {0}) }

\* the record of a pet without a toy, walked an hour before the session opens;
\* a dog's free feeds are used up
nightRecord(type, stats, t) ==
  [ pet |-> [type |-> type, name |-> PetName, stats |-> stats, emotion |-> "happy"],
    totalSpent |-> purchaseCost(type), events |-> <<>>, hasToy |-> FALSE,
    lastWalkTime |-> t - MsPerHour, lastBathTime |-> 0, lastTrimNailsTime |-> 0,
    feedCount |-> IF type = "dog" THEN FreeFeeds ELSE 0 ]

mountedAt(m, t, sessionSec, data) ==
  /\ now = t
  /\ pet = m.pet
  /\ totalSpent = m.totalSpent
  /\ events = m.events
  /\ isSleeping = m.isSleeping
  /\ hasToy = m.hasToy
  /\ lastWalkTime = m.lastWalkTime
  /\ lastBathTime = m.lastBathTime
  /\ lastTrimNailsTime = m.lastTrimNailsTime
  /\ feedCount = m.feedCount
  /\ walkCountdown = m.walkCountdown
  /\ showInitialPurchase = m.showInitialPurchase
  /\ activeAction = NoAction
  /\ actionTimer = 0
  /\ lastRestTime = t
  /\ intervals = <<>>
  /\ eventTimers = {}
  /\ decayDue = t + DecayPeriod
  /\ sleepDue = t + SleepCheckPeriod
  /\ refreshDue = t + RefreshPeriod
  /\ lastSaved = t
  /\ deadline = t + sessionSec * 1000
  /\ starts = 0
  /\ ticksDone = 0
  /\ toyTimers = {}
  /\ stage = "dashboard"
  /\ statHistory = m.statHistory
  /\ stored = m.stored
  /\ lastOp = Op("mount", data, TRUE)

\* a session of sessionSec seconds that starts with the mount m at time t on
\* the kind of stored data named; no report function has been applied
InitOn(m, t, sessionSec, data) == mountedAt(m, t, sessionSec, data) /\ report = NoReport

\* a session of sessionSec seconds that starts with the mount m at time t
InitWith(m, t, sessionSec) == InitOn(m, t, sessionSec, "")

\* A Dashboard mounted on a newly selected pet, or on the record an earlier
\* session saved just before or two days before.
Init ==
  \E type \in PetTypes :
    \/ InitWith(Mounted(noRecord(newPet(type, Noon)), Noon, TRUE), Noon, ShortSessionSec)
    \/ \E r \in SavedRecords(type, Noon) :
         InitWith(Mounted(loadRecord(r, Noon, Noon), Noon, FALSE), Noon, ShortSessionSec)
    \/ InitWith(Mounted(loadRecord(nightRecord(type, tiredStats, Dusk(type)),
                                    Dusk(type), Dusk(type)),
                         Dusk(type), FALSE),
                Dusk(type), LongSessionSec)
    \/ InitWith(Mounted(loadRecord(nightRecord(type, tiredStats, Dawn(type)),
                                    Dawn(type) - 48 * MsPerHour, Dawn(type)),
                         Dawn(type), FALSE),
                Dawn(type), LongSessionSec)

Next ==
  \/ \E kind \in Kinds : Attempt(kind)
  \/ \E i \in DOMAIN intervals : CountdownTick(i)
  \/ \E t \in eventTimers : SubEventFire(t)
  \/ DecayTick
  \/ checkSleepCycle
  \/ updateCountdowns
  \/ Advance
  \/ handleInitialPurchaseComplete

Spec == Init /\ [][Next]_vars

(* --------------------------- fairness --------------------------------- *)
\* a timer callback that is due
TimerStep ==
  \/ \E i \in DOMAIN intervals : CountdownTick(i)
  \/ \E t \in eventTimers : SubEventFire(t)
  \/ DecayTick
  \/ checkSleepCycle
  \/ updateCountdowns

\* The sessions of a dog, in which the browser runs every due callback and time
\* passes: the page stays open until the end of the session.
DogInit == Init /\ pet.type = "dog"

FairSpec == DogInit /\ [][Next]_vars /\ WF_vars(TimerStep) /\ WF_vars(Advance)

(* ------------------- sessions of play and care ------------------------ *)
\* a dog with a toy and the energy for one play
playfulStats ==
  [ hunger |-> Pct(90), happiness |-> Pct(50), hygiene |-> Pct(90),
    energy |-> Pct(35), thirst |-> Pct(90) ]

\* a pet so dirty that one grooming leaves it under the grooming threshold
dirtyStats ==
  [ hunger |-> Pct(90), happiness |-> Pct(50), hygiene |-> Pct(10),
    energy |-> Pct(10), thirst |-> Pct(90) ]

\* the record of a pet with a toy, walked an hour before the session opens
careRecord(type, stats, t) ==
  [ pet |-> [type |-> type, name |-> PetName, stats |-> stats,
             emotion |-> updateEmotion(stats, FALSE)],
    totalSpent |-> purchaseCost(type), events |-> <<>>, hasToy |-> TRUE,
    lastWalkTime |-> t - MsPerHour, lastBathTime |-> 0, lastTrimNailsTime |-> 0,
    feedCount |-> 0 ]

\* a Dashboard mounted at midday on the record of a playful dog or of a dirty cat
CareInit ==
  \E m \in { careRecord("dog", playfulStats, Noon), careRecord("cat", dirtyStats, Noon) } :
    InitWith(Mounted(loadRecord(m, Noon, Noon), Noon, FALSE), Noon, CareSessionSec)

\* the buttons the user of these sessions presses
CareKinds == {"play", "buyToy", "grooming"}

\* the user acts when the page has just shown something new: after the mount,
\* a click, the end of an action or the check of a broken toy
Prompted ==
  \/ lastOp.op \in {"mount", "attempt", "toyBreak"}
  \/ lastOp.op = "countdown" /\ lastOp.ok

CareNext ==
  \/ \E kind \in CareKinds : Prompted /\ Attempt(kind)
  \/ Prompted /\ handleReset
  \/ \E i \in DOMAIN intervals : CountdownTick(i)
  \/ \E t \in eventTimers : SubEventFire(t)
  \/ \E t \in toyTimers : ToyBreakFire(t)
  \/ OrphanTimeout
  \/ DecayTick
  \/ checkSleepCycle
  \/ updateCountdowns
  \/ Advance

CareSpec == CareInit /\ [][CareNext]_vars

\* two seconds before the end of hour h of the third day
BeforeHourEnds(h) == 2 * MsPerDay + h * MsPerHour + 59 * MsPerMinute + 58 * 1000

(* ------------------- sessions around the clock ------------------------ *)
\* the record the save effect last wrote
currentRecord ==
  [ pet |-> pet, totalSpent |-> totalSpent, events |-> events, hasToy |-> hasToy,
    lastWalkTime |-> lastWalkTime, lastBathTime |-> lastBathTime,
    lastTrimNailsTime |-> lastTrimNailsTime, feedCount |-> feedCount ]

\* the page is closed and opened again gapMin minutes later: every timer of the
\* old page is gone and a new Dashboard mounts on the saved record; the pet is
\* watched until `end`
reloadUntil(gapMin, end) ==
  LET t == now + gapMin * MsPerMinute
      m == Mounted(loadRecord(stored, stored.lastSaved, t), t, FALSE)
  IN /\ Settled
     /\ stage = "dashboard"
     /\ ~showInitialPurchase
     /\ now' = t
     /\ pet' = m.pet
     /\ totalSpent' = m.totalSpent
     /\ events' = m.events
     /\ isSleeping' = m.isSleeping
     /\ hasToy' = m.hasToy
     /\ lastWalkTime' = m.lastWalkTime
     /\ lastBathTime' = m.lastBathTime
     /\ lastTrimNailsTime' = m.lastTrimNailsTime
     /\ feedCount' = m.feedCount
     /\ walkCountdown' = m.walkCountdown
     /\ showInitialPurchase' = m.showInitialPurchase
     /\ activeAction' = NoAction
     /\ actionTimer' = 0
     /\ lastRestTime' = t
     /\ intervals' = <<>>
     /\ eventTimers' = {}
     /\ toyTimers' = {}
     /\ decayDue' = t + DecayPeriod
     /\ sleepDue' = t + SleepCheckPeriod
     /\ refreshDue' = t + RefreshPeriod
     /\ lastSaved' = t
     /\ deadline' = end
     /\ starts' = 0
     /\ ticksDone' = 0
     /\ statHistory' = m.statHistory
     /\ stored' = m.stored
     /\ lastOp' = Op("reload", "", TRUE)
     /\ UNCHANGED << stage, report >>

\* the page is closed and opened again gapMin minutes later, for a new session
Reload(gapMin) ==
  reloadUntil(gapMin, now + gapMin * MsPerMinute + ClockSessionSec * 1000)

\* a Dashboard mounted just before the end of any hour of the day, on the
\* record a session of any pet type left a moment before
ClockInit ==
  \E type \in PetTypes : \E h \in 0..23 :
    InitWith(Mounted(loadRecord(nightRecord(type, tiredStats, BeforeHourEnds(h)),
                                BeforeHourEnds(h), BeforeHourEnds(h)),
                     BeforeHourEnds(h), FALSE),
             BeforeHourEnds(h), ClockSessionSec)

\* the page is left alone, or closed once and opened again later
ClockNext ==
  \/ DecayTick
  \/ checkSleepCycle
  \/ updateCountdowns
  \/ Advance
  \/ \E gapMin \in {ShortGapMin, LongGapMin} : lastOp.op = "mount" /\ Reload(gapMin)

ClockSpec == ClockInit /\ [][ClockNext]_vars

(* --------------------- what the page is opened on --------------------- *)

\* variant of mountOn that restores any parseable record
mountOnAnyRecord(requested, data, t) ==
  CASE data.kind = "absent" -> Mounted(noRecord(requested), t, TRUE)
    [] data.kind = "unparseable" -> Mounted(noRecord(requested), t, FALSE)
    [] OTHER -> Mounted([ loadRecord(data.rec, data.rec.lastSaved, t)
                            EXCEPT !.initialPet = requested ], t, FALSE)

\* The Dashboard mounted at t on the pet `requested` that Index passes, with
\* `data` under "vpet_pet_data": nothing, a string JSON.parse throws on, or a
\* record.  The purchase overlay comes up only when there is no data; the load
\* effect restores a record of the same name and type and removes any other;
\* its try/catch swallows the parse error.
mountOn(requested, data, t) ==
  CASE data.kind = "absent" -> Mounted(noRecord(requested), t, TRUE)
    [] data.kind = "unparseable" -> Mounted(noRecord(requested), t, FALSE)
    [] data.kind = "record" /\ data.rec.pet.name = requested.name
                            /\ data.rec.pet.type = requested.type ->
         Mounted([ loadRecord(data.rec, data.rec.lastSaved, t)
                     EXCEPT !.initialPet = requested ], t, FALSE)
    [] OTHER -> Mounted(noRecord(requested), t, FALSE)

\* a full event log, newest first, whose last entry was logged at t
fullLog(t) ==
  [ i \in 1..MaxEvents |-> [ message |-> <<"Finished", "feed">>,
                             timestamp |-> t - (i - 1) * MsPerMinute ] ]

\* the record a session of the pet p left at time t, after some care
leftRecord(p, log, t) ==
  dataToSave(p, purchaseCost(p.type) + RestockCost, log, TRUE, t - MsPerHour,
             t - 2 * MsPerHour, t - 3 * MsPerHour, FreeFeeds + 1,
             <<[t |-> t - MsPerMinute, stats |-> neededStats], [t |-> t, stats |-> p.stats]>>,
             t)

\* the stats of a pet whose thirst the awake decay has taken to 0
parchedStats == [ neededStats EXCEPT !.thirst = 0 ]

\* a stat vector with a value JSON can hold and the Dashboard never writes
outOfRangeStats == [ neededStats EXCEPT !.hunger = Pct(150) ]

\* What can be under "vpet_pet_data" when a pet of `type` named PetName is
\* opened at t, gapMin minutes after the record (if any) was written, and the
\* pet Index passes: the record's pet when Index restores the dashboard from
\* it, the newly selected pet otherwise.
Openings(type, t, gapMin) ==
  LET saved == t - gapMin * MsPerMinute
      mine == [type |-> type, name |-> PetName, stats |-> neededStats, emotion |-> "happy"]
      otherType == CHOOSE o \in PetTypes : o # type
  IN { [ label |-> "absent", requested |-> newPet(type, t), data |-> [kind |-> "absent"] ],
       [ label |-> "unparseable", requested |-> newPet(type, t),
         data |-> [kind |-> "unparseable"] ],
       [ label |-> "record", requested |-> mine,
         data |-> [kind |-> "record", rec |-> leftRecord(mine, <<>>, saved)] ],
       [ label |-> "fullLog", requested |-> mine,
         data |-> [kind |-> "record", rec |-> leftRecord(mine, fullLog(saved), saved)] ],
       [ label |-> "parched", requested |-> [mine EXCEPT !.stats = parchedStats],
         data |-> [kind |-> "record",
                   rec |-> leftRecord([mine EXCEPT !.stats = parchedStats], <<>>, saved)] ],
       [ label |-> "outOfRange", requested |-> [mine EXCEPT !.stats = outOfRangeStats],
         data |-> [kind |-> "record",
                   rec |-> leftRecord([mine EXCEPT !.stats = outOfRangeStats], <<>>, saved)] ],
       [ label |-> "otherName", requested |-> newPet(type, t),
         data |-> [kind |-> "record",
                   rec |-> leftRecord([mine EXCEPT !.name = OtherName], fullLog(saved),
                                      saved)] ],
       [ label |-> "otherType", requested |-> newPet(type, t),
         data |-> [kind |-> "record",
                   rec |-> leftRecord([mine EXCEPT !.type = otherType], fullLog(saved),
                                      saved)] ] }

\* the page is opened at midday or two seconds before ten at night, at once or
\* some minutes after the record was written
LoadInit ==
  \E type \in PetTypes : \E t \in {Noon, BeforeHourEnds(21)} :
    \E gapMin \in {0, ShortGapMin, LongGapMin} :
      \E o \in Openings(type, t, gapMin) :
        InitOn(mountOn(o.requested, o.data, t), t, ClockSessionSec, o.label)

\* the page is left alone, or closed once and opened again later
LoadNext ==
  \/ DecayTick
  \/ checkSleepCycle
  \/ updateCountdowns
  \/ Advance
  \/ \E gapMin \in {ShortGapMin, LongGapMin} : lastOp.op = "mount" /\ Reload(gapMin)

LoadSpec == LoadInit /\ [][LoadNext]_vars

(* ------------------------- pages opened again ------------------------- *)
\* the page is closed and at once opened again, within the time the pet is
\* watched
Reopen == reloadUntil(0, deadline)

\* the page is opened at midday or two seconds before ten at night on the
\* record the pet's last session just wrote
ReopenInit ==
  \E type \in PetTypes : \E t \in {Noon, BeforeHourEnds(21)} :
    \E o \in { p \in Openings(type, t, 0) : p.label = "record" } :
      InitOn(mountOn(o.requested, o.data, t), t, ReopenSessionSec, o.label)

\* the page is left alone, or closed and opened again after a mount, a decay
\* tick or a sleep check
ReopenNext ==
  \/ DecayTick
  \/ checkSleepCycle
  \/ updateCountdowns
  \/ Advance
  \/ lastOp.op \in {"mount", "decay", "sleepCheck"} /\ Reopen

ReopenSpec == ReopenInit /\ [][ReopenNext]_vars

(* ------------------------- nights and days ---------------------------- *)
\* stat vectors a session can have left: tired, starved and parched, at the
\* night floors of hunger and thirst, and well kept
starvedStats ==
  [ hunger |-> Pct(10), happiness |-> Pct(60), hygiene |-> Pct(50),
    energy |-> Pct(40), thirst |-> Pct(5) ]

floorStats == [ starvedStats EXCEPT !.hunger = Pct(20), !.thirst = Pct(15) ]

keptStats ==
  [ hunger |-> Pct(90), happiness |-> Pct(90), hygiene |-> Pct(90),
    energy |-> Pct(90), thirst |-> Pct(90) ]

NightStats == {tiredStats, starvedStats, floorStats, keptStats}

\* a Dashboard mounted just before the end of any hour of the day on the
\* record a session left a moment before, and left alone
NightInit ==
  \E type \in PetTypes : \E h \in 0..23 : \E stats \in NightStats :
    InitWith(Mounted(loadRecord(nightRecord(type, stats, BeforeHourEnds(h)),
                                BeforeHourEnds(h), BeforeHourEnds(h)),
                     BeforeHourEnds(h), FALSE),
             BeforeHourEnds(h), ClockSessionSec)

NightNext ==
  \/ DecayTick
  \/ checkSleepCycle
  \/ updateCountdowns
  \/ Advance

NightSpec == NightInit /\ [][NightNext]_vars

(* ------------------------- timeouts that run late --------------------- *)
\* the due times of the interval timers and of the toy timeouts
IntervalDues ==
  (IF stage = "dashboard" THEN {decayDue, sleepDue, refreshDue} ELSE {})
    \cup {intervals[i].due : i \in DOMAIN intervals}
    \cup {t.due : t \in toyTimers}

\* setTimeout gives the least delay, not the moment: a sub-event callback that
\* is due has not run yet and time passes until the next interval callback
AdvanceLate ==
  /\ \E t \in eventTimers : t.due <= now
  /\ IntervalDues # {}
  /\ \A d \in IntervalDues : d > now
  /\ SetMin(IntervalDues) <= deadline
  /\ now' = SetMin(IntervalDues)
  /\ lastOp' = Op("advance", "late", TRUE)
  /\ UNCHANGED << pet, totalSpent, events, activeAction, actionTimer, isSleeping,
                  lastRestTime, walkCountdown, hasToy, lastWalkTime, lastBathTime,
                  lastTrimNailsTime, feedCount, intervals, eventTimers, decayDue,
                  sleepDue, refreshDue, lastSaved, showInitialPurchase, deadline, starts, ticksDone, toyTimers, stage, statHistory, stored, report >>

\* a Dashboard mounted at midday on the record of a playful pet with a toy that
\* has not been out yet
LateInit ==
  \E type \in PetTypes :
    LET m == [ careRecord(type, playfulStats, Noon) EXCEPT !.lastWalkTime = 0 ]
    IN InitWith(Mounted(loadRecord(m, Noon, Noon), Noon, FALSE), Noon, LateSessionSec)

\* the walk and the play, whose clicks draw at least one sub-event
LateKinds == {"exercise", "play"}

LateNext ==
  \/ \E kind \in LateKinds :
       Prompted /\ Attempt(kind) /\ (lastOp'.ok => eventTimers' # eventTimers)
  \/ \E i \in DOMAIN intervals : CountdownTick(i)
  \/ \E t \in eventTimers : SubEventFire(t)
  \/ DecayTick
  \/ checkSleepCycle
  \/ updateCountdowns
  \/ Advance
  \/ AdvanceLate

LateSpec == LateInit /\ [][LateNext]_vars

(* ------------------------- a long idle session ------------------------ *)
\* the page is opened at midday on the record the pet's last session just
\* wrote and is left open
HistoryInit ==
  \E type \in PetTypes :
    \E o \in { p \in Openings(type, Noon, 0) : p.label = "record" } :
      InitOn(mountOn(o.requested, o.data, Noon), Noon, HistorySessionSec, o.label)

HistoryNext ==
  \/ DecayTick
  \/ checkSleepCycle
  \/ updateCountdowns
  \/ Advance

HistorySpec == HistoryInit /\ [][HistoryNext]_vars

(* ------------------------------ the report --------------------------- *)
\* everything but the record of the last handler
programVars ==
  << pet, totalSpent, events, activeAction, actionTimer, isSleeping, lastRestTime,
     walkCountdown, hasToy, lastWalkTime, lastBathTime, lastTrimNailsTime, feedCount,
     now, intervals, eventTimers, decayDue, sleepDue, refreshDue, lastSaved,
     showInitialPurchase, deadline, starts, ticksDone >>

\* Math.round of num / den for num >= 0
roundHalfUp(num, den) == (2 * num + den) \div (2 * den)

\* variant of getGrade that gives A+ only above 97
getGradeStrict(score) ==
  IF score > 97 THEN "A+"
  ELSE IF score >= 93 THEN "A"
  ELSE IF score >= 90 THEN "A-"
  ELSE IF score >= 87 THEN "B+"
  ELSE IF score >= 83 THEN "B"
  ELSE IF score >= 80 THEN "B-"
  ELSE IF score >= 77 THEN "C+"
  ELSE IF score >= 73 THEN "C"
  ELSE IF score >= 70 THEN "C-"
  ELSE IF score >= 67 THEN "D+"
  ELSE IF score >= 63 THEN "D"
  ELSE IF score >= 60 THEN "D-"
  ELSE "F"

\* getGrade
getGrade(score) ==
  IF score >= 97 THEN "A+"
  ELSE IF score >= 93 THEN "A"
  ELSE IF score >= 90 THEN "A-"
  ELSE IF score >= 87 THEN "B+"
  ELSE IF score >= 83 THEN "B"
  ELSE IF score >= 80 THEN "B-"
  ELSE IF score >= 77 THEN "C+"
  ELSE IF score >= 73 THEN "C"
  ELSE IF score >= 70 THEN "C-"
  ELSE IF score >= 67 THEN "D+"
  ELSE IF score >= 63 THEN "D"
  ELSE IF score >= 60 THEN "D-"
  ELSE "F"

\* the kinds getActionCounts counts
CountKinds == {"feed", "water", "walk", "play", "bath", "vet", "groom"}

\* getOverallScore: the rounded capped sum of the average stat and two points
\* for each of feed, water, walk, play, bath and groom that was counted
getOverallScore(stats, counts) ==
  LET sum == stats.hunger + stats.thirst + stats.happiness + stats.hygiene + stats.energy
      variety == Cardinality({ k \in {"feed", "water", "walk", "play", "bath", "groom"} :
                                 counts[k] > 0 })
      varietyBonus == Min(10, variety * 2)
      total == sum + 5 * Pct(varietyBonus)
  IN IF total >= 5 * Pct(100) THEN 100 ELSE roundHalfUp(total, 5 * Scale)

\* the stat vectors a report is asked for: every whole level on all five
\* stats, and a few with a fraction in the average
ReportStats ==
  LET level(v) == [ s \in StatNames |-> Pct(v) ]
  IN { level(v) : v \in 0..100 }
       \cup { [ level(10) EXCEPT !.energy = Pct(10) + h * (Scale \div 2) ] : h \in 1..5 }

\* variant of getImprovements that returns every entry
getImprovementsUncut(stats, counts) ==
  LET when(c, name) == IF c THEN <<name>> ELSE <<>>
      out == when(stats.hunger < Pct(50) /\ counts.feed < 3, "hunger")
               \o when(stats.thirst < Pct(50) /\ counts.water < 3, "thirst")
               \o when(stats.happiness < Pct(60) /\ counts.play + counts.walk < 2, "happiness")
               \o when(stats.hygiene < Pct(50) /\ counts.bath = 0 /\ counts.groom = 0, "hygiene")
               \o when(stats.energy < Pct(30), "energy")
  IN IF out = <<>> THEN <<"none">> ELSE out

\* getImprovements: the conditions that trigger, by name and in the order of
\* the code, "none" for the positive default; at most four are returned
getImprovements(stats, counts) ==
  LET when(c, name) == IF c THEN <<name>> ELSE <<>>
      out == when(stats.hunger < Pct(50) /\ counts.feed < 3, "hunger")
               \o when(stats.thirst < Pct(50) /\ counts.water < 3, "thirst")
               \o when(stats.happiness < Pct(60) /\ counts.play + counts.walk < 2, "happiness")
               \o when(stats.hygiene < Pct(50) /\ counts.bath = 0 /\ counts.groom = 0, "hygiene")
               \o when(stats.energy < Pct(30), "energy")
      all == IF out = <<>> THEN <<"none">> ELSE out
  IN SubSeq(all, 1, Min(4, Len(all)))

\* stat vectors on either side of each threshold of getImprovements
ImprovementStats ==
  { [ hunger |-> Pct(50) - lo.hunger, thirst |-> Pct(50) - lo.thirst,
      happiness |-> Pct(60) - lo.happiness, hygiene |-> Pct(50) - lo.hygiene,
      energy |-> Pct(30) - lo.energy ] : lo \in [StatNames -> {0, 1}] }

\* counts on either side of each threshold of getImprovements
ImprovementCounts ==
  { [ feed |-> c.feed + 2, water |-> c.water + 2, walk |-> c.walk, play |-> c.play,
      bath |-> c.bath, vet |-> c.vet, groom |-> c.groom ] : c \in [CountKinds -> {0, 1}] }

\* the report's clock runs in seconds: 30 days of milliseconds exceed the
\* integers of the model
SecPerDay == 24 * 60 * 60

\* Date.now() when the report is shown
ReportAt == 40 * SecPerDay

\* days of a ReportTimeRange other than "all": parseInt(range, 10)
RangeDays == [ r \in {"1", "7", "30"} |-> IF r = "1" THEN 1 ELSE IF r = "7" THEN 7 ELSE 30 ]

Ranges == {"1", "7", "30", "all"}

\* getRangeStartMs
getRangeStartMs(range, at) ==
  IF range = "all" THEN 0 ELSE at - RangeDays[range] * SecPerDay

\* filterEventsByRange
filterEventsByRange(log, range, at) ==
  LET start == getRangeStartMs(range, at)
      Keep(e) == e.timestamp >= start
  IN SelectSeq(log, Keep)

\* variant of filterStatHistoryByRange that drops the entry at the cutoff
filterStatHistoryAfter(history, range, at) ==
  LET start == getRangeStartMs(range, at)
      Keep(h) == h.t > start
  IN SelectSeq(history, Keep)

\* filterStatHistoryByRange
filterStatHistoryByRange(history, range, at) ==
  LET start == getRangeStartMs(range, at)
      Keep(h) == h.t >= start
  IN SelectSeq(history, Keep)

\* the moments an entry can carry: one second before, at and, for the last day,
\* after each cutoff
Stamps ==
  { ReportAt - d * SecPerDay - before : d \in {1, 7, 30}, before \in {0, 1} } \cup {ReportAt}

\* lists of at most MaxEntries moments, newest first
StampLists ==
  { q \in UNION { [1..n -> Stamps] : n \in 0..MaxEntries } :
      \A i \in 1..(Len(q) - 1) : q[i] >= q[i + 1] }

Reverse(q) == [ i \in 1..Len(q) |-> q[Len(q) + 1 - i] ]

\* the Dashboard is shown for a new dog at midday and a report is asked for: a
\* score and grade, the improvements, or the filtered events and snapshots
ReportInit ==
  /\ mountedAt(Mounted(noRecord(newPet("dog", Noon)), Noon, TRUE), Noon, 0, "absent")
  /\ \/ \E stats \in ReportStats : \E counts \in [CountKinds -> 0..MaxCount] :
          report = [step |-> "asked", stats |-> stats, counts |-> counts]
     \/ \E stats \in ImprovementStats : \E counts \in ImprovementCounts :
          report = [step |-> "review", stats |-> stats, counts |-> counts]
     \/ \E q \in StampLists :
          report = [ step |-> "range", at |-> ReportAt,
                     events |-> [ i \in 1..Len(q) |->
                                    [message |-> <<"Finished", "feed">>, timestamp |-> q[i]] ],
                     history |-> [ i \in 1..Len(q) |->
                                     [t |-> Reverse(q)[i], stats |-> keptStats] ] ]

\* getImprovements is applied to the stats and the counts
ImproveStep ==
  /\ report.step = "review"
  /\ report' = [ step |-> "reviewed", stats |-> report.stats, counts |-> report.counts,
                 improvements |-> getImprovements(report.stats, report.counts) ]
  /\ UNCHANGED << programVars, toyTimers, stage, statHistory, stored, lastOp >>

\* the two filters are applied for each of the four ranges
FilterStep ==
  /\ report.step = "range"
  /\ report' = [ step |-> "filtered", at |-> report.at, events |-> report.events,
                 history |-> report.history,
                 keptEvents |-> [ r \in Ranges |->
                                    filterEventsByRange(report.events, r, report.at) ],
                 keptHistory |-> [ r \in Ranges |->
                                     filterStatHistoryByRange(report.history, r,
                                                              report.at) ] ]
  /\ UNCHANGED << programVars, toyTimers, stage, statHistory, stored, lastOp >>

\* getOverallScore is applied to the stats and the counts
ScoreStep ==
  /\ report.step = "asked"
  /\ report' = [ step |-> "scored", stats |-> report.stats, counts |-> report.counts,
                 score |-> getOverallScore(report.stats, report.counts) ]
  /\ UNCHANGED << programVars, toyTimers, stage, statHistory, stored, lastOp >>

\* getGrade is applied to the score
GradeStep ==
  /\ report.step = "scored"
  /\ report' = [ step |-> "graded", stats |-> report.stats, counts |-> report.counts,
                 score |-> report.score, grade |-> getGrade(report.score) ]
  /\ UNCHANGED << programVars, toyTimers, stage, statHistory, stored, lastOp >>

ReportNext ==
  \/ ScoreStep
  \/ GradeStep
  \/ ImproveStep
  \/ FilterStep

ReportSpec == ReportInit /\ [][ReportNext]_vars

(* ------------------------- minutes of the day ------------------------- *)
\* the seconds of a minute at which the two predicates are compared
SecondsOfMinute == {0, 59}

\* the energy levels a tick is applied to
TickEnergies == {0, Pct(50), Pct(100)}

\* the Dashboard is shown for a new dog and the day and sleep predicates are
\* asked about one profile at one minute of the day
DayInit ==
  /\ mountedAt(Mounted(noRecord(newPet("dog", Noon)), Noon, TRUE), Noon, 0, "absent")
  /\ \E type \in PetTypes : \E minute \in 0..(24 * 60 - 1) : \E sec \in SecondsOfMinute :
       \E energy \in TickEnergies :
         report = [ step |-> "minute", type |-> type,
                    at |-> minute * MsPerMinute + sec * 1000,
                    stats |-> [keptStats EXCEPT !.energy = energy] ]

\* the sleep check sets the flag from shouldBeSleeping and the decay interval
\* computes isDaytime and runs the branch the flag selects
DayStep ==
  /\ report.step = "minute"
  /\ LET sleeping == shouldBeSleeping(report.type, report.at)
         daytime == isDaytime(report.type, report.at)
     IN report' = [ step |-> "ticked", type |-> report.type, at |-> report.at,
                    stats |-> report.stats, sleeping |-> sleeping, daytime |-> daytime,
                    after |-> IF sleeping
                                THEN asleepDecay(report.type, report.stats)
                                ELSE awakeDecay(report.type, report.stats, daytime,
                                                DecayPeriod) ]
  /\ UNCHANGED << programVars, toyTimers, stage, statHistory, stored, lastOp >>

DayNext == DayStep

DaySpec == DayInit /\ [][DayNext]_vars

(* --------------------------- properties ------------------------------- *)
Clamp(x) == Max(0, Min(Pct(100), x))

\* the step just taken was a click on the button of `kind`
Clicked(kind) == lastOp'.op = "attempt" /\ lastOp'.kind = kind

\* the step just taken started an action
Started == lastOp'.op = "attempt" /\ lastOp'.ok

\* the step just taken was the countdown callback that completes the action
Completed == lastOp'.op = "countdown" /\ lastOp'.ok

\* C1: in every reachable state each of hunger, thirst, happiness, hygiene and
\* energy lies in [0, 100]: after every decay tick, completion, sub-event and
\* the catch-up at load.
StatsInRange ==
  \A s \in StatNames : pet.stats[s] >= 0 /\ pet.stats[s] <= Pct(100)

\* an exercise has completed with one stat held at 0 and another at 100
StatsInRangeWitness ==
  /\ lastOp = Op("countdown", "exercise", TRUE)
  /\ pet.stats.thirst = 0
  /\ pet.stats.happiness = Pct(100)

\* C2: at most one action runs at a time: there is never more than one
\* countdown, and a click while activeAction is non-null is rejected and
\* leaves the running action and its countdown as they were.
OneActionRun ==
  [][ /\ Len(intervals') <= 1
      /\ (activeAction' # NoAction <=> Len(intervals') = 1)
      /\ (activeAction # NoAction /\ lastOp'.op = "attempt"
            => /\ ~lastOp'.ok
               /\ UNCHANGED << activeAction, actionTimer, intervals, ticksDone >>) ]_vars

\* a click was rejected while an action was running
OneActionRunWitness ==
  /\ lastOp.op = "attempt" /\ ~lastOp.ok
  /\ activeAction # NoAction /\ ~isSleeping
  /\ Len(intervals) = 1

\* the preconditions of an attempt: one of them fails
PreconditionFails(kind) ==
  LET a == petConfigs(pet.type).actions
  IN \/ activeAction # NoAction
     \/ isSleeping
     \/ kind = "feed" /\ pet.stats.hunger >= Pct(a.feed.triggerThreshold)
     \/ kind = "water" /\ pet.stats.thirst >= Pct(a.water.triggerThreshold)
     \/ kind = "bath" /\ pet.stats.hygiene >= Pct(a.bath.triggerThreshold)
     \/ kind = "grooming" /\ pet.stats.hygiene >= Pct(a.grooming.triggerThreshold)
     \/ kind = "exercise"
          /\ (\/ pet.stats.energy < Pct(a.exercise.minEnergy)
              \/ (lastWalkTime > 0
                  /\ now - lastWalkTime < a.exercise.cooldownHours * MsPerHour))
     \/ kind = "play"
          /\ (\/ pet.stats.energy < Pct(a.play.minEnergy)
              \/ (a.play.requiresToy /\ ~hasToy))
     \/ kind = "buyToy" /\ hasToy

nominalCost(kind) ==
  CASE kind = "buyToy" -> ToyCost
    [] kind = "feed" /\ pet.type = "dog" ->
       IF feedCount >= FreeFeeds THEN RestockCost ELSE 0
    [] OTHER -> petConfigs(pet.type).actions[kind].cost

nominalDuration(kind) ==
  CASE kind = "buyToy" -> ToyDuration
    [] kind = "feed" /\ pet.type = "dog" /\ feedCount >= FreeFeeds ->
       petConfigs(pet.type).actions.feed.duration + RestockExtra
    [] OTHER -> petConfigs(pet.type).actions[kind].duration

\* C4: starting an action adds its cost to totalSpent once, at the start, and
\* creates a run whose countdown begins at the action's duration; totalSpent
\* does not change again at completion, nor at any other step but the
\* first-time purchase.
CostChargedOnceAtStart ==
  [][ /\ \A kind \in Kinds :
           Clicked(kind) /\ lastOp'.ok
             => /\ totalSpent' = totalSpent + nominalCost(kind)
                /\ activeAction' = kind
                /\ actionTimer' = nominalDuration(kind)
                /\ Len(intervals') = Len(intervals) + 1
      /\ (totalSpent' # totalSpent => Started \/ lastOp'.op = "purchase")
      /\ (Completed => totalSpent' = totalSpent) ]_vars

\* a paid action has completed
CostChargedWitness ==
  /\ lastOp.op = "countdown" /\ lastOp.ok
  /\ lastOp.kind = "feed"
  /\ pet.type # "dog"
  /\ totalSpent = purchaseCost(pet.type) + petConfigs(pet.type).actions.feed.cost

\* C5: while the pet is asleep no action of any kind starts; a click on Feed
\* (or on any other button) leaves all state unchanged and appends no event.
AsleepBlocksActions ==
  [][ isSleeping /\ lastOp'.op = "attempt"
        => ~lastOp'.ok /\ UNCHANGED programVars ]_vars

\* a feed was refused to a hungry, idle pet that is asleep
AsleepBlocksWitness ==
  /\ lastOp = Op("attempt", "feed", FALSE)
  /\ isSleeping
  /\ activeAction = NoAction
  /\ pet.stats.hunger < Pct(petConfigs(pet.type).actions.feed.triggerThreshold)

\* C6: no decay tick, awake branch or asleep branch, modifies the stat vector
\* while an action is running.
NoDecayWhileActionRuns ==
  [][ lastOp'.op = "decay" /\ activeAction # NoAction => pet'.stats = pet.stats ]_vars

\* the delta an action of `kind` has for stat s, in percent
configuredDelta(kind, s) ==
  LET c == petConfigs(pet.type).actions
  IN CASE kind = "buyToy" -> IF s = "happiness" THEN ToyHappiness ELSE 0
       [] OTHER -> IF s \in DOMAIN c[kind].statChanges
                     THEN c[kind].statChanges[s] ELSE 0

\* C7: when the countdown reaches zero each stat becomes
\* clamp(value just before completion + configured delta), so that what a
\* sub-event or a decay tick changed during the action is still there.
CompletionAddsDeltas ==
  [][ Completed
        => \A s \in StatNames :
             pet'.stats[s] = Clamp(pet.stats[s] + Pct(configuredDelta(activeAction, s))) ]_vars

\* C8: an accepted action completes exactly once: its countdown callback
\* clears the run at its d-th tick and not before, only a running action is
\* ticked, after the completion the decay tick applies again and the buttons
\* are open again, and every action that can finish before the session ends
\* does finish.
CompletesOnceAfterDuration ==
  /\ [][ /\ (lastOp'.op = "countdown"
               => /\ activeAction # NoAction
                  /\ Len(intervals) = 1
                  /\ ticksDone' = ticksDone + 1
                  /\ (lastOp'.ok <=> ticksDone' = intervals[1].duration)
                  /\ (lastOp'.ok => activeAction' = NoAction /\ intervals' = << >>)
                  /\ (~lastOp'.ok => activeAction' = activeAction))
         /\ (Started => ticksDone' = 0 /\ intervals'[1].duration = actionTimer')
         /\ (lastOp'.op = "decay" /\ activeAction = NoAction => lastOp'.ok)
         /\ (activeAction = NoAction /\ ~isSleeping /\ Clicked("vetVisit")
               => lastOp'.ok) ]_vars
  /\ ((activeAction # NoAction /\ now + actionTimer * CountdownPeriod <= deadline)
        ~> (activeAction = NoAction))

\* a second action has run to its end after the first
CompletesOnceWitness ==
  /\ lastOp.op = "countdown" /\ lastOp.ok
  /\ starts = 2
  /\ ticksDone = 5
  /\ activeAction = NoAction

\* C9: a dog's feed started with feedCount < 120 costs 0 and lasts the base
\* duration; started with feedCount >= 120 it costs 25 and lasts 60 seconds
\* more; feedCount grows by one at each completed dog feed and at no other step.
DogFeedRestock ==
  [][ /\ (Clicked("feed") /\ lastOp'.ok /\ pet.type = "dog"
            => IF feedCount < 120
                 THEN /\ totalSpent' = totalSpent
                      /\ actionTimer' = petConfigs("dog").actions.feed.duration
                 ELSE /\ totalSpent' = totalSpent + 25
                      /\ actionTimer' = petConfigs("dog").actions.feed.duration + 60)
      /\ (Completed /\ lastOp'.kind = "feed" /\ pet.type = "dog"
            => feedCount' = feedCount + 1)
      /\ (feedCount' # feedCount
            => Completed /\ lastOp'.kind = "feed" /\ pet.type = "dog") ]_vars

\* the dog's 121st feed has started
DogFeedRestockWitness ==
  /\ lastOp = Op("attempt", "feed", TRUE)
  /\ pet.type = "dog"
  /\ feedCount = 120
  /\ totalSpent = purchaseCost("dog") + 25
  /\ actionTimer = 65

\* C10: feed, water, bath and groom start only with hunger, thirst, hygiene
\* and hygiene strictly below the action's triggerThreshold; a vet visit is
\* refused only to a pet that is asleep or has an action running.
ThresholdGate ==
  [][ LET a == petConfigs(pet.type).actions
      IN /\ (Clicked("feed") /\ lastOp'.ok
               => pet.stats.hunger < Pct(a.feed.triggerThreshold))
         /\ (Clicked("water") /\ lastOp'.ok
               => pet.stats.thirst < Pct(a.water.triggerThreshold))
         /\ (Clicked("bath") /\ lastOp'.ok
               => pet.stats.hygiene < Pct(a.bath.triggerThreshold))
         /\ (Clicked("grooming") /\ lastOp'.ok
               => pet.stats.hygiene < Pct(a.grooming.triggerThreshold))
         /\ (Clicked("vetVisit") /\ ~lastOp'.ok
               => isSleeping \/ activeAction # NoAction) ]_vars

\* water was refused at a thirst equal to the threshold
ThresholdGateWitness ==
  /\ lastOp = Op("attempt", "water", FALSE)
  /\ ~isSleeping /\ activeAction = NoAction
  /\ pet.stats.thirst = Pct(petConfigs(pet.type).actions.water.triggerThreshold)

\* C11: an exercise starts only with energy at or above exercise.minEnergy and
\* with lastWalkTime unset or at least cooldownHours in the past, and an
\* exercise completes at least cooldownHours after the completion before it.
exerciseCooldown == petConfigs(pet.type).actions.exercise.cooldownHours * MsPerHour

CareCooldownGate ==
  [][ /\ (Clicked("bath") /\ lastOp'.ok) =>
           \/ lastBathTime = 0
           \/ (now - lastBathTime) \div MsPerDay
                >= petConfigs(pet.type).actions.bath.cooldownDays
      /\ (Clicked("grooming") /\ lastOp'.ok) =>
           \/ lastTrimNailsTime = 0
           \/ (now - lastTrimNailsTime) \div MsPerDay
                >= petConfigs(pet.type).actions.grooming.cooldownDays ]_vars

\* C13: a play starts only with energy at or above play.minEnergy and, when the
\* profile requires one, with a toy; a toy purchase starts only without a toy,
\* so the purchase that sets hasToy was started, and ends, without a toy.
ToyGate ==
  [][ /\ (Clicked("play") /\ lastOp'.ok) =>
           /\ pet.stats.energy >= Pct(petConfigs(pet.type).actions.play.minEnergy)
           /\ petConfigs(pet.type).actions.play.requiresToy => hasToy
      /\ (Clicked("buyToy") /\ lastOp'.ok) => ~hasToy
      /\ \A i \in DOMAIN intervals : intervals[i].kind = "buyToy" => ~intervals[i].hasToy
      /\ (Completed /\ lastOp'.kind = "buyToy") => (~hasToy /\ hasToy') ]_vars

\* a toy purchase has completed, after the toy of this session broke
ToyGateWitness ==
  /\ lastOp = Op("countdown", "buyToy", TRUE)
  /\ hasToy
  /\ \E e \in 1..Len(events) : events[e].message = <<"The toy broke!", "play">>

\* C14: when the check of a broken toy runs one hour after the play completed
\* and no toy is owned, happiness drops by 30 (not below 0), once, and one
\* event is appended.
ToyPenaltyApplied ==
  [][ (lastOp'.op = "toyBreak" /\ ~hasToy) =>
        /\ pet'.stats.happiness = Max(0, pet.stats.happiness - Pct(ToyPenalty))
        /\ Len(events') = Len(events) + 1
        /\ events'[1].message = <<"is sad without a toy", "play">> ]_vars

\* C15: when the check of a broken toy runs and a toy was bought in the
\* meantime, the pet and the event log stay as they are.
ToyPenaltySuppressed ==
  [][ (lastOp'.op = "toyBreak" /\ hasToy) => (pet' = pet /\ events' = events) ]_vars

\* the check of a broken toy has run after a new toy was bought
ToyPenaltySuppressedWitness ==
  /\ lastOp.op = "toyBreak"
  /\ hasToy
  /\ \E e \in 1..Len(events) : events[e].message = <<"Got a new toy!", "buyToy">>
  /\ \E e \in 1..Len(events) : events[e].message = <<"The toy broke!", "play">>

\* C16: a reset cancels every timer of the discarded pet (the action countdown,
\* the sub-event timers, the check of a broken toy), and after it nothing
\* changes the pet, the event log or the saved record.
ResetCancelsTimers ==
  [][ /\ lastOp'.op = "reset" =>
           (intervals' = <<>> /\ eventTimers' = {} /\ toyTimers' = {})
      /\ stage = "selection" => UNCHANGED << pet, events, lastSaved >> ]_vars

\* C17: after every sleep check, the one at mount included, isSleeping equals
\* the window predicate on the hour h of the check: with start > end, asleep
\* iff h >= start or h < end; otherwise asleep iff h >= start and h < end.
sleepWindow(type, h) ==
  LET start == petConfigs(type).sleepHours.start
      end == petConfigs(type).sleepHours.end
  IN IF start > end THEN (h >= start \/ h < end) ELSE (h >= start /\ h < end)

SleepFlagFollowsWindow ==
  [][ lastOp'.op \in {"sleepCheck", "reload"} =>
        (isSleeping' <=> sleepWindow(pet'.type, Hour(now'))) ]_vars

\* a sleep check at the first hour of the window has put an awake pet to sleep
SleepFlagWitness ==
  /\ lastOp = Op("sleepCheck", "asleep", TRUE)
  /\ isSleeping
  /\ Hour(now) = petConfigs(pet.type).sleepHours.start
  /\ pet.type = "parrot"

\* C18: in every reachable state the mood is "sleeping" exactly when isSleeping
\* is true.
MoodSleepingIffAsleep == (pet.emotion = "sleeping") <=> isSleeping

\* C19: whenever the pet is not asleep its mood is happy with happiness at or
\* above 80, okay at or above 50, sad at or above 20, and grumpy below.
moodOf(happiness) ==
  IF happiness >= Pct(80) THEN "happy"
  ELSE IF happiness >= Pct(50) THEN "okay"
  ELSE IF happiness >= Pct(20) THEN "sad"
  ELSE "grumpy"

MoodFollowsHappiness == ~isSleeping => pet.emotion = moodOf(pet.stats.happiness)

\* C20: when a record is loaded m minutes after it was saved, at an hour
\* outside the 22-6 night band, the loaded stats are those the awake branch of
\* the decay interval, with the profile's decayRates, produces from the saved
\* stats over the same m minutes (two ticks a minute).
awakeOver(type, stats, ticks, t) ==
  LET after[n \in 0..ticks] ==
        IF n = 0 THEN stats
        ELSE awakeDecay(type, after[n - 1], isDaytime(type, t), DecayPeriod)
  IN after[ticks]

CatchUpMatchesDecayClock ==
  [][ (lastOp'.op = "reload" /\ Hour(now') >= 6 /\ Hour(now') < 22) =>
        pet'.stats = awakeOver(pet.type, pet.stats,
                               ((now' - lastSaved) \div MsPerMinute)
                                 * (MsPerMinute \div DecayPeriod),
                               now') ]_vars

(* ------------------------- load and persistence ----------------------- *)
\* what a session that starts from nothing holds besides the pet
FreshFields ==
  /\ totalSpent = 0
  /\ ~hasToy
  /\ lastWalkTime = 0 /\ lastBathTime = 0 /\ lastTrimNailsTime = 0
  /\ feedCount = 0
  /\ \A i \in 1..Len(events) : events[i].timestamp = now
  /\ statHistory = <<[t |-> now, stats |-> pet.stats]>>

MalformedRecordStartsFresh ==
  lastOp.op = "mount" /\ lastOp.kind \in {"unparseable", "outOfRange"}
    => /\ \A s \in StatNames : pet.stats[s] \in 0..Pct(100)
       /\ FreshFields

\* C23: the event log never holds more than 20 entries, whatever was appended
\* or loaded; new entries go to the head in the order they were logged, the
\* entries behind them keep their order, and the oldest ones are dropped
\* once the log is full.
EventLogBounded ==
  /\ [](Len(events) <= MaxEvents)
  /\ [][ events' # events
          => \E k \in 1..2 :
               /\ Len(events') = Min(Len(events) + k, MaxEvents)
               /\ \A i \in 1..k : events'[i].timestamp = now'
               /\ SubSeq(events', k + 1, Len(events'))
                    = SubSeq(events, 1, Len(events') - k) ]_vars

\* the sleep check logged 'fell asleep' into a full log
EventLogBoundedWitness ==
  /\ lastOp.op = "sleepCheck" /\ lastOp.ok
  /\ Len(events) = MaxEvents
  /\ events[1].message = <<"fell asleep", "">>
  /\ events[MaxEvents].message = <<"Finished", "feed">>
  /\ events[MaxEvents].timestamp = events[1].timestamp - SleepCheckPeriod - (MaxEvents - 2) * MsPerMinute

\* C27: while the Dashboard is shown the stored record equals the state in
\* memory: its pet, totalSpent, events, hasToy, cooldown timestamps,
\* feedCount and statHistory; and every step that changes one of them
\* writes the whole record anew at that moment.
PersistedMatchesMemory ==
  /\ [](stage = "dashboard"
          => /\ stored # NoData
             /\ stored.pet = pet /\ stored.totalSpent = totalSpent
             /\ stored.events = events /\ stored.hasToy = hasToy
             /\ stored.lastWalkTime = lastWalkTime /\ stored.lastBathTime = lastBathTime
             /\ stored.lastTrimNailsTime = lastTrimNailsTime
             /\ stored.feedCount = feedCount /\ stored.statHistory = statHistory)
  /\ [][ stage' = "dashboard" /\ <<savedFields, statHistory>>' # <<savedFields, statHistory>>
          => stored' # stored /\ stored'.lastSaved = now' ]_vars

\* an action has completed and the record holds its result
PersistedMatchesMemoryWitness ==
  /\ lastOp.op = "countdown" /\ lastOp.ok
  /\ stored # NoData /\ stored.pet = pet /\ stored.lastSaved = now
  /\ stored.totalSpent = totalSpent /\ totalSpent > 0
  /\ Len(stored.statHistory) >= 2
  /\ stored.statHistory[Len(stored.statHistory)] = [t |-> now, stats |-> pet.stats]

(* ------------------------------ sub-events ---------------------------- *)
\* tenths of the action's duration after which the text says a sub-event fires
fractionOf(t) ==
  CASE t.message[1] = "+10 Happiness" -> 4
    [] t.message[1] = "+15 Happiness" -> 6
    [] t.message[2] = "exercise" -> 5
    [] OTHER -> 6

\* C30: a sub-event of an exercise or a play of d seconds fires only once
\* 0.4 d, 0.5 d or 0.6 d seconds (by its kind) have passed since the click
\* that started the countdown.
SubEventsFireAtFractions ==
  [][ lastOp'.op = "subEvent"
        => \A t \in eventTimers \ eventTimers' :
             /\ intervals # <<>>
             /\ LET d == petConfigs(pet.type).actions[t.message[2]].duration
                    clicked == intervals[1].due - (ticksDone + 1) * CountdownPeriod
                IN 10 * (now - clicked) >= fractionOf(t) * d * 1000 ]_vars

(* -------------------------- sleep transitions ------------------------- *)
\* how many entries of the log carry the text
entriesOf(log, text) == Cardinality({ i \in DOMAIN log : log[i].message[1] = text })

SleepEdgeWokeWitness ==
  /\ lastOp.op = "sleepCheck" /\ lastOp.kind = "awake"
  /\ ~isSleeping /\ events[1].message[1] = "woke up!"

(* ------------------------------- report ------------------------------- *)
\* the grades, lowest first
GradeOrder == <<"F", "D-", "D", "D+", "C-", "C", "C+", "B-", "B", "B+", "A-", "A", "A+">>

\* the least score of each grade above F, in the order of GradeOrder
GradeFloor == <<0, 60, 63, 67, 70, 73, 77, 80, 83, 87, 90, 93, 97>>

rankOf(grade) == CHOOSE i \in DOMAIN GradeOrder : GradeOrder[i] = grade

\* C25: the grade of a score in 0..100 is the highest grade whose floor the
\* score reaches (A+ from 97, A from 93, A- from 90, B+ from 87, B from 83,
\* B- from 80, C+ from 77, C from 73, C- from 70, D+ from 67, D from 63, D- from
\* 60, F below), and no lower score gets a higher grade.
GradeFollowsTable ==
  report.step = "graded"
    => /\ report.score \in 0..100
       /\ \E i \in DOMAIN GradeOrder :
            /\ report.grade = GradeOrder[i]
            /\ report.score >= GradeFloor[i]
            /\ i < Len(GradeOrder) => report.score < GradeFloor[i + 1]
       /\ \A lower \in 0..report.score :
            rankOf(getGrade(lower)) <= rankOf(report.grade)

\* a score of 97 was graded A+
GradeFollowsTableWitness ==
  report.step = "graded" /\ report.score = 97 /\ report.grade = "A+"

\* a score of 59 was graded F
GradeLowWitness ==
  report.step = "graded" /\ report.score = 59 /\ report.grade = "F"

\* C26: the overall score is the whole number nearest to min(100, the average
\* of the five stats + min(10, 2 x the number of kinds among feed, water, walk,
\* play, bath, vet and groom that were counted)), within 0..100.
ScoreCountsSevenKinds ==
  report.step \in {"scored", "graded"}
    => LET st == report.stats
           sum == st.hunger + st.thirst + st.happiness + st.hygiene + st.energy
           kinds == Cardinality({ k \in CountKinds : report.counts[k] > 0 })
           total == sum + 5 * Pct(Min(10, 2 * kinds))
       IN /\ report.score \in 0..100
          /\ report.score = IF total >= 5 * Pct(100) THEN 100
                            ELSE roundHalfUp(total, 5 * Scale)

\* the example of the text: all stats 10, feed, water, play and bath once
ScoreExample ==
  /\ report.step = "graded"
  /\ \A s \in StatNames : report.stats[s] = Pct(10)
  /\ \A k \in CountKinds : report.counts[k] = (IF k \in {"feed", "water", "play", "bath"} THEN 1 ELSE 0)
  /\ report.score = 18 /\ report.grade = "F"

(* ----------------------------- stat history --------------------------- *)
\* C24: the stat history never holds more than 500 snapshots and is ordered
\* oldest first; every step that changes the stat vector appends the new
\* vector at the tail, dropping the oldest snapshot when 500 are held, and no
\* other step touches the history.
HistoryBounded ==
  /\ [](/\ Len(statHistory) <= MaxHistory
        /\ \A i \in 1..(Len(statHistory) - 1) : statHistory[i].t <= statHistory[i + 1].t)
  /\ [][ IF pet'.stats # pet.stats
           THEN /\ statHistory'[Len(statHistory')] = [t |-> now', stats |-> pet'.stats]
                /\ IF Len(statHistory) < MaxHistory
                     THEN statHistory' = Append(statHistory, [t |-> now', stats |-> pet'.stats])
                     ELSE /\ Len(statHistory') = MaxHistory
                          /\ SubSeq(statHistory', 1, MaxHistory - 1)
                               = SubSeq(statHistory, 2, MaxHistory)
           ELSE statHistory' = statHistory ]_vars

\* a decay tick appended to the full history and the oldest snapshot went
HistoryBoundedWitness ==
  /\ lastOp.op = "decay" /\ lastOp.ok
  /\ Len(statHistory) = MaxHistory
  /\ statHistory[1].t > Noon
  /\ statHistory[MaxHistory] = [t |-> now, stats |-> pet.stats]

(* --------------------- cancellation of sub-events --------------------- *)
\* C29: a sub-event applies only while the countdown of the click that
\* scheduled it is running, and the completion of an exercise or a play
\* leaves none of its sub-event timers pending, however late they run.
SubEventsCancelledAtCompletion ==
  /\ [](\A t \in eventTimers : \E i \in DOMAIN intervals : intervals[i].id = t.owner)
  /\ [][ lastOp'.op = "subEvent"
          => \A t \in eventTimers \ eventTimers' :
               /\ activeAction = t.message[2]
               /\ \E i \in DOMAIN intervals : intervals[i].id = t.owner ]_vars
  /\ [][ Completed /\ lastOp'.kind \in {"exercise", "play"}
          => /\ eventTimers' = {}
             /\ pet'.stats = mergeStats(pet.stats, intervals[1].statChanges) ]_vars

\* an exercise has completed whose only sub-event was overdue and never ran
SubEventsCancelledWitness ==
  /\ lastOp.op = "countdown" /\ lastOp.ok /\ lastOp.kind = "exercise"
  /\ starts = 1
  /\ eventTimers = {}
  /\ \A i \in DOMAIN events : events[i].message[1] \notin {"+10 Happiness", "+15 Happiness", "-Hygiene"}

(* ------------------------------ asleep decay -------------------------- *)
\* a callback of the decay interval took the asleep branch
AsleepTick == lastOp'.op = "decay" /\ lastOp'.kind = "asleep"

\* C31: an asleep decay tick never raises hunger or thirst, and leaves a
\* hunger of 20 or more at 20 or more and a thirst of 15 or more at 15 or
\* more.
AsleepDecaysTowardFloors ==
  [][ AsleepTick
        => /\ pet'.stats.hunger <= pet.stats.hunger
           /\ pet'.stats.thirst <= pet.stats.thirst
           /\ (pet.stats.hunger >= Pct(20) => pet'.stats.hunger >= Pct(20))
           /\ (pet.stats.thirst >= Pct(15) => pet'.stats.thirst >= Pct(15)) ]_vars

\* C32: an asleep decay tick takes from hygiene a quarter of what an awake
\* tick takes and from happiness three tenths of what an awake tick takes at
\* its base rate, for every profile (to the resolution of the stats).
AsleepRates ==
  [][ AsleepTick
        => LET decay == petConfigs(pet.type).decayRates
               awakeHygiene == (25 * Scale) \div decay.hygiene
               awakeHappiness == (50 * Scale) \div decay.happiness
           IN /\ (pet.stats.hygiene >= awakeHygiene
                   => Abs(4 * (pet.stats.hygiene - pet'.stats.hygiene) - awakeHygiene) <= 4)
              /\ (pet.stats.happiness >= awakeHappiness
                   => Abs(10 * (pet.stats.happiness - pet'.stats.happiness)
                            - 3 * awakeHappiness) <= 10) ]_vars

\* the part of C32 about happiness alone
AsleepHappinessRate ==
  [][ AsleepTick
        => LET awakeHappiness == (50 * Scale) \div petConfigs(pet.type).decayRates.happiness
           IN pet.stats.happiness >= awakeHappiness
                => Abs(10 * (pet.stats.happiness - pet'.stats.happiness)
                         - 3 * awakeHappiness) <= 10 ]_vars

(* ----------------------------- improvements --------------------------- *)
\* the order in which getImprovements checks its conditions
ConditionOrder == <<"hunger", "thirst", "happiness", "hygiene", "energy">>

\* the conditions that trigger for the reviewed stats and counts
Triggered ==
  LET st == report.stats
      n == report.counts
  IN { c \in {"hunger", "thirst", "happiness", "hygiene", "energy"} :
         CASE c = "hunger" -> st.hunger < Pct(50) /\ n.feed < 3
           [] c = "thirst" -> st.thirst < Pct(50) /\ n.water < 3
           [] c = "happiness" -> st.happiness < Pct(60) /\ n.play + n.walk < 2
           [] c = "hygiene" -> st.hygiene < Pct(50) /\ n.bath = 0 /\ n.groom = 0
           [] OTHER -> st.energy < Pct(30) }

ImprovementsDefaultWitness ==
  report.step = "reviewed" /\ report.improvements = <<"none">>

(* ------------------------------ range filter -------------------------- *)
\* C34: for 1, 7 and 30 days the filters keep, in order, exactly the events
\* and the snapshots stamped at or after the report's time minus that many
\* days, the one stamped at the cutoff included; for all-time they keep
\* everything; so what 1 day keeps is kept by 7 days, that by 30 days and
\* that by all-time.
RangeFilterExact ==
  report.step = "filtered"
    => LET cutoff(r) == report.at - RangeDays[r] * SecPerDay
           entries(q) == { q[i] : i \in DOMAIN q }
           exact(q, kept, stampOf(_)) ==
             /\ kept["all"] = q
             /\ \A r \in {"1", "7", "30"} :
                  LET Recent(e) == stampOf(e) >= cutoff(r)
                  IN kept[r] = SelectSeq(q, Recent)
             /\ entries(kept["1"]) \subseteq entries(kept["7"])
             /\ entries(kept["7"]) \subseteq entries(kept["30"])
             /\ entries(kept["30"]) \subseteq entries(kept["all"])
           eventStamp(e) == e.timestamp
           snapshotStamp(h) == h.t
       IN /\ exact(report.events, report.keptEvents, eventStamp)
          /\ exact(report.history, report.keptHistory, snapshotStamp)

\* of two entries, the one stamped at the 1-day cutoff is kept for 1 day and the
\* one a second older only from 7 days on
RangeFilterWitness ==
  /\ report.step = "filtered"
  /\ Len(report.history) = 2
  /\ report.history[1].t = report.at - SecPerDay - 1
  /\ report.history[2].t = report.at - SecPerDay
  /\ report.keptHistory["1"] = <<report.history[2]>>
  /\ report.keptHistory["7"] = report.history
  /\ report.keptEvents["1"] = <<report.events[1]>>

(* ------------------------------- catch-up ----------------------------- *)
\* the stat vector of the record a session of LoadSpec is opened on
persistedStats(label) ==
  CASE label = "parched" -> parchedStats
    [] label = "outOfRange" -> outOfRangeStats
    [] OTHER -> neededStats

\* C33: the catch-up of the load effect only decays: none of the five stats
\* is higher after a load than in the record it was loaded from, whatever
\* the time that passed.
CatchUpOnlyDecays ==
  /\ [](lastOp.op = "mount" /\ lastOp.kind \in {"record", "fullLog", "parched"}
         => \A s \in StatNames : pet.stats[s] <= persistedStats(lastOp.kind)[s])
  /\ [][ lastOp'.op = "reload"
          => \A s \in StatNames : pet'.stats[s] <= stored.pet.stats[s] ]_vars

\* the part of C33 about the stats other than thirst
CatchUpDecaysOthers ==
  /\ [](lastOp.op = "mount" /\ lastOp.kind \in {"record", "fullLog", "parched"}
         => \A s \in StatNames \ {"thirst"} :
              pet.stats[s] <= persistedStats(lastOp.kind)[s])
  /\ [][ lastOp'.op = "reload"
          => \A s \in StatNames \ {"thirst"} : pet'.stats[s] <= stored.pet.stats[s] ]_vars

(* ------------------------------ round trip ---------------------------- *)
\* the page was closed and opened again with no time in between
ReopenedAtOnce == lastOp'.op = "reload" /\ now' = now

\* what a reload at once restores, the stat history aside, is what was stored;
\* the mount's own sleep check may have logged 'fell asleep' on top
RestoresFields ==
  /\ pet'.stats = stored.pet.stats
  /\ totalSpent' = stored.totalSpent
  /\ hasToy' = stored.hasToy
  /\ lastWalkTime' = stored.lastWalkTime
  /\ lastBathTime' = stored.lastBathTime
  /\ lastTrimNailsTime' = stored.lastTrimNailsTime
  /\ feedCount' = stored.feedCount
  /\ events' \in { stored.events, addEvent(stored.events, <<"fell asleep", "">>, now') }

\* C36: saving and reloading the same pet with zero elapsed time restores
\* the stats, totalSpent, events, hasToy, cooldown timestamps, feedCount and
\* every snapshot of the stat history as they were stored.
RoundTrip ==
  [][ ReopenedAtOnce => RestoresFields /\ statHistory' = stored.statHistory ]_vars

\* the part of C36 about everything but the stat history
RoundTripOfFields == [][ ReopenedAtOnce => RestoresFields ]_vars

(* --------------------------- sleep log order -------------------------- *)
\* the 'fell asleep' and 'woke up!' entries of a log, in the log's order
sleepEntries(log) ==
  SelectSeq(log, LAMBDA e : e.message[1] \in {"fell asleep", "woke up!"})

\* C38: in one pet's log 'fell asleep' and 'woke up!' entries strictly
\* alternate, across any sequence of sleep checks and reloads.
SleepEntriesAlternate ==
  LET s == sleepEntries(events)
  IN \A i \in 1..(Len(s) - 1) : s[i].message[1] # s[i + 1].message[1]

(* --------------------------- day and night ---------------------------- *)
\* C37: for each of the four profiles and every minute of the day isDaytime
\* is the exact negation of shouldBeSleeping, so with the sleep flag up to
\* date the awake branch always drains energy and never regenerates it.
DaytimeNegatesSleeping ==
  report.step = "ticked" =>
    /\ report.daytime = ~report.sleeping
    /\ ~report.sleeping =>
         /\ report.after.energy <= report.stats.energy
         /\ report.stats.energy > 0 => report.after.energy < report.stats.energy

\* an awake tick in the last minute before the sleep window drained energy
DaytimeNegatesSleepingWitness ==
  /\ report.step = "ticked"
  /\ MinuteOfDay(report.at) = petConfigs(report.type).sleepHours.start * 60 - 1
  /\ report.daytime /\ ~report.sleeping
  /\ report.after.energy < report.stats.energy

\* the first minute of the sleep window is night for both predicates
NightNegatesWitness ==
  /\ report.step = "ticked"
  /\ MinuteOfDay(report.at) = petConfigs(report.type).sleepHours.start * 60
  /\ ~report.daytime /\ report.sleeping

====
